---- MODULE Spec2Model ----
(***************************************************************************)
(* A model of the research pipeline of Amhdour/ResearchAgent2: the         *)
(* episodic store (storage/knowledge_graph.py), the semantic store         *)
(* (storage/memory.py), the planner, search and summarizer agents          *)
(* (agents/*.py) and the research run (main.py).  Python values are modelled as follows: a dict is a      *)
(* function from its keys (a record), a list is a sequence, None is the    *)
(* tuple <<"None">>, an ISO timestamp string is <<"iso", t>> for the clock *)
(* tick t it was taken at.                                                 *)
(***************************************************************************)
EXTENDS Integers, Sequences, FiniteSets, TLC

VARIABLES
    under_test,          \* the component the calls of this behaviour are made on
    clock,               \* datetime.now(), in ticks
    graph,               \* KnowledgeGraph.graph
    current_session_id,  \* KnowledgeGraph.current_session_id
    kg_disk,             \* the file at KnowledgeGraph.storage_path
    kg_saves,            \* the _save calls of this KnowledgeGraph instance: "none" yet, all "ok", one "failed"
    vectors,             \* VectorMemory.vectors
    metadata,            \* VectorMemory.metadata
    vm_disk,             \* the file vectors.json under VectorMemory.storage_path
    vm_saves,            \* the same of this VectorMemory instance
    str_hash,            \* hash() of the strings this process has hashed
    agent_kg,            \* whether the agents were given the KnowledgeGraph (knowledge_graph is not None)
    web_answer,          \* the records the search provider yields for a web query
    news_answer,         \* the records it yields for a news query
    summarizer,          \* SummarizerAgent.use_llm and whether SummarizerAgent.llm_client is set
    search_results,      \* the result lists handed to summarize
    instances,           \* two instances of one store on the same file, and their _save calls
    io_failures,         \* the file operations that have failed so far
    calls,               \* the calls made so far
    pc,                  \* where the research run of AutonomousResearchAgent stands
    run,                 \* the local variables of that run, and the calls it has made
    ret                  \* the call made last: its name, arguments, return value

kg_vars == <<graph, current_session_id, kg_disk, kg_saves>>
vm_vars == <<vectors, metadata, vm_disk, vm_saves, str_hash>>
env_vars == <<under_test, agent_kg, web_answer, news_answer, summarizer, search_results,
              instances>>
run_vars == <<pc, run>>
vars == <<env_vars, clock, kg_vars, vm_vars, io_failures, calls, run_vars, ret>>

(***************************************************************************)
(* Bounds of the model.                                                    *)
(***************************************************************************)
MaxCalls == 4
MaxAgentCalls == 2
MaxIoFailures == 1
MaxAnswer == 3
MaxNews == 2
MaxLists == 2
MaxTokens == 3
MaxRuns == 1
TicksPerSecond == 2

\* a text is the sequence of its pieces; a query typed by the user is one piece
Queries == {<<"q1">>, <<"q2">>}

(***************************************************************************)
(* Python helpers.                                                         *)
(***************************************************************************)
None == <<"None">>

\* dict.get(key, default)
Get(d, key, default) == IF key \in DOMAIN d THEN d[key] ELSE default

\* d1.update(d2): the keys of d2 override those of d1
Update(d1, d2) ==
    [k \in (DOMAIN d1) \cup (DOMAIN d2) |-> IF k \in DOMAIN d2 THEN d2[k] ELSE d1[k]]

\* datetime.now().isoformat() at tick t
isoformat(t) == <<"iso", t>>

\* int(datetime.now().timestamp()) at tick t: whole seconds
timestamp(t) == t \div TicksPerSecond

\* str(n) for n >= 0, as the sequence of its decimal digits
RECURSIVE Digits(_)
Digits(n) == IF n < 10 THEN <<n>> ELSE Digits(n \div 10) \o <<n % 10>>

(***************************************************************************)
(* json.dump / json.load of the knowledge graph.  A JSON value is a tagged *)
(* tuple: <<"null">>, <<"str", s>>, <<"num", n>>, <<"arr", seq>>,          *)
(* <<"obj", members>>.  The payload of an action entry ("data") holds      *)
(* only strings, numbers, booleans and lists of those, which json writes   *)
(* and reads back unchanged; it is carried as <<"val", data>>.             *)
(***************************************************************************)
JNull == <<"null">>
JStr(s) == <<"str", s>>
JNum(n) == <<"num", n>>
JArr(s) == <<"arr", s>>
JObj(o) == <<"obj", o>>

DumpOptStr(v) == IF v = None THEN JNull ELSE JStr(v)
LoadOptStr(j) == IF j = JNull THEN None ELSE j[2]

DumpEntry(e) ==
    JObj([agent |-> JStr(e.agent), action |-> JStr(e.action),
          timestamp |-> JStr(e.timestamp),
          session_id |-> DumpOptStr(e.session_id),
          data |-> <<"val", e.data>>])

LoadEntry(j) ==
    [agent |-> j[2].agent[2], action |-> j[2].action[2],
     timestamp |-> j[2].timestamp[2],
     session_id |-> LoadOptStr(j[2].session_id),
     data |-> j[2].data[2]]

DumpEntries(s) == JArr([i \in 1..Len(s) |-> DumpEntry(s[i])])
LoadEntries(j) == [i \in 1..Len(j[2]) |-> LoadEntry(j[2][i])]

\* every key of the session dict is written; "ended" exists only once set
DumpSession(s) ==
    JObj([k \in DOMAIN s |->
            IF k = "actions" THEN DumpEntries(s[k]) ELSE JStr(s[k])])

LoadSession(j) ==
    [k \in DOMAIN j[2] |->
        IF k = "actions" THEN LoadEntries(j[2][k]) ELSE j[2][k][2]]

DumpStats(a) ==
    JObj([k \in DOMAIN a |->
            IF k = "action_count" THEN JNum(a[k]) ELSE JStr(a[k])])

LoadStats(j) == [k \in DOMAIN j[2] |-> j[2][k][2]]

DumpMeta(m) == JObj([k \in DOMAIN m |-> JStr(m[k])])
LoadMeta(j) == [k \in DOMAIN j[2] |-> j[2][k][2]]

\* json.dump(self.graph, f)
JsonDumpGraph(g) ==
    JObj([metadata |-> DumpMeta(g.metadata),
          sessions |-> JArr([i \in 1..Len(g.sessions) |-> DumpSession(g.sessions[i])]),
          agents |-> JObj([a \in DOMAIN g.agents |-> DumpStats(g.agents[a])]),
          actions |-> DumpEntries(g.actions)])

\* json.load(f) of a document json.dump wrote
JsonLoadGraph(j) ==
    [metadata |-> LoadMeta(j[2].metadata),
     sessions |-> [i \in 1..Len(j[2].sessions[2]) |-> LoadSession(j[2].sessions[2][i])],
     agents |-> [a \in DOMAIN j[2].agents[2] |-> LoadStats(j[2].agents[2][a])],
     actions |-> LoadEntries(j[2].actions)]

\* the file: absent, cut short by a failed write, or a document
NoFile == <<"nofile">>
Corrupt == <<"corrupt">>

(***************************************************************************)
(* KnowledgeGraph (storage/knowledge_graph.py).                            *)
(***************************************************************************)
\* __init__: the default document
DefaultGraph(t) ==
    [metadata |-> [created |-> isoformat(t), version |-> "1.0.0",
                   description |-> "Autonomous Research Agent Knowledge Graph"],
     sessions |-> <<>>,
     agents |-> <<>>,
     actions |-> <<>>]

\* what open() and json.dump can do: write the document, fail before the file
\* is opened (the file is left alone), fail after (the file is cut short)
SaveOutcomes == {"ok", "fail", "partial"}

\* _save: the file after it
KnowledgeGraph_save(disk, g, outcome) ==
    CASE outcome = "ok" -> JsonDumpGraph(g)
      [] outcome = "fail" -> disk
      [] OTHER -> Corrupt

LoadOutcomes == {"ok", "fail"}

\* _load: the document after it, from the default document d
\* the file is never read
KnowledgeGraph_load_nothing(d, disk, outcome) == d

KnowledgeGraph_load(d, disk, outcome) ==
    IF disk = NoFile THEN d
    ELSE IF disk = Corrupt \/ outcome = "fail" THEN d
    ELSE Update(d, JsonLoadGraph(disk))

\* f"session_{n}_{sec}"
SessionId(n, sec) == <<"session", "_">> \o Digits(n) \o <<"_">> \o Digits(sec)

\* start_session, lines 63-74: the id, the document after it
\* the id without the sequence number of the session
start_session_id_by_time(g, t) == SessionId(1, timestamp(t))

start_session_id(g, t) == SessionId(Len(g.sessions) + 1, timestamp(t))

start_session_graph(g, query, t1, t2) ==
    LET session == [id |-> start_session_id(g, t1), query |-> query,
                    started |-> isoformat(t2), status |-> "active",
                    actions |-> <<>>]
    IN  [g EXCEPT !.sessions = Append(@, session)]

\* the first session, whatever its id
FindSession_first(sessions, id, i) == IF Len(sessions) = 0 THEN 0 ELSE 1

\* the first index of a session with this id, 0 when there is none
RECURSIVE FindSession(_, _, _)
FindSession(sessions, id, i) ==
    IF i > Len(sessions) THEN 0
    ELSE IF sessions[i].id = id THEN i
    ELSE FindSession(sessions, id, i + 1)

\* every session with the id or not is ended
end_session_graph_every(g, session_id, status, t) ==
    [g EXCEPT !.sessions =
        [i \in 1..Len(@) |-> Update(@[i], [ended |-> isoformat(t), status |-> status])]]

\* end_session, lines 87-91
end_session_graph(g, session_id, status, t) ==
    LET i == FindSession(g.sessions, session_id, 1)
    IN  IF i = 0 THEN g
        ELSE [g EXCEPT !.sessions[i] =
                Update(@, [ended |-> isoformat(t), status |-> status])]

\* every call stamps first_seen
agent_stats_restamped(agents, agent, ts) ==
    [first_seen |-> ts, last_seen |-> ts,
     action_count |-> IF agent \in DOMAIN agents
                      THEN agents[agent].action_count + 1 ELSE 1]

\* lines 128-135: the statistics of the agent after this action
agent_stats(agents, agent, ts) ==
    LET stats == IF agent \in DOMAIN agents THEN agents[agent]
                 ELSE [first_seen |-> ts, action_count |-> 0]
    IN  Update(stats, [action_count |-> stats.action_count + 1, last_seen |-> ts])

\* the entry goes to the global list only
log_agent_action_graph_global(g, cur, agent, action, data, ts) ==
    LET action_entry == [agent |-> agent, action |-> action, timestamp |-> ts,
                         session_id |-> cur, data |-> data]
        g1 == [g EXCEPT !.actions = Append(@, action_entry)]
    IN  [g1 EXCEPT !.agents = Update(@, [a \in {agent} |-> agent_stats(@, agent, ts)])]

\* log_agent_action, lines 112-135
log_agent_action_graph(g, cur, agent, action, data, ts) ==
    LET action_entry == [agent |-> agent, action |-> action, timestamp |-> ts,
                         session_id |-> cur, data |-> data]
        i == IF cur # None THEN FindSession(g.sessions, cur, 1) ELSE 0
        g1 == [g EXCEPT !.actions = Append(@, action_entry)]
        g2 == IF i = 0 THEN g1
              ELSE [g1 EXCEPT !.sessions[i].actions = Append(@, action_entry)]
    IN  [g2 EXCEPT !.agents = Update(@, [a \in {agent} |-> agent_stats(@, agent, ts)])]

(***************************************************************************)
(* VectorMemory (storage/memory.py).  A text to embed is the sequence of   *)
(* its code points.  A vector is kept exactly: [dim, num, normsq] stands   *)
(* for the dim floats num[i] / sqrt(normsq).                               *)
(***************************************************************************)
EmbDim == 128

\* str.lower() on ASCII letters
lower(text) ==
    [i \in 1..Len(text) |-> IF text[i] >= 65 /\ text[i] <= 90 THEN text[i] + 32 ELSE text[i]]

\* the sum of v[i]^2 over the indices in S
RECURSIVE SumSquares(_, _)
SumSquares(v, S) ==
    IF S = {} THEN 0
    ELSE LET i == CHOOSE j \in S : TRUE
         IN  v[i] * v[i] + SumSquares(v, S \ {i})

\* _simple_embedding, lines 123-137, with h = hash(text): the numerators over
\* 256 of the entries (an index outside DOMAIN num holds 0.0), the marker
\* 1.0 = 256/256 at index h % 128, then the division by the norm (which the
\* marker keeps above 0)
simple_embedding(text, h) ==
    LET low == lower(text)
        n == IF Len(low) < EmbDim THEN Len(low) ELSE EmbDim
        marker == (h % EmbDim) + 1
        num == [i \in (1..n) \cup {marker} |-> IF i = marker THEN 256 ELSE low[i]]
    IN  [dim |-> EmbDim, num |-> num, normsq |-> SumSquares(num, DOMAIN num)]

\* the values hash(text) % 128 takes in the model
HashIdx == {0, EmbDim - 1}

\* the keys of a metadata dict that hold numbers
NumKeys == {"embedding_dim", "key_findings_count", "source_count"}

DumpRecord(m) ==
    JObj([k \in DOMAIN m |-> IF k \in NumKeys THEN JNum(m[k]) ELSE JStr(m[k])])
LoadRecord(j) == [k \in DOMAIN j[2] |-> j[2][k][2]]

\* json.dump({"vectors": ..., "metadata": ...}, f): a float is written with
\* the digits that read back as the same float
JsonDumpVectors(vs, ms) ==
    JObj([vectors |-> JArr([i \in 1..Len(vs) |-> JArr(vs[i])]),
          metadata |-> JArr([i \in 1..Len(ms) |-> DumpRecord(ms[i])])])

JsonLoadVectors(j) ==
    [vectors |-> [i \in 1..Len(j[2].vectors[2]) |-> j[2].vectors[2][i][2]],
     metadata |-> [i \in 1..Len(j[2].metadata[2]) |-> LoadRecord(j[2].metadata[2][i])]]

\* a file that is there is left as it is
VectorMemory_save_new(disk, vs, ms, outcome) ==
    IF disk # NoFile THEN disk
    ELSE IF outcome = "ok" THEN JsonDumpVectors(vs, ms) ELSE Corrupt

\* _save: the file after it
VectorMemory_save(disk, vs, ms, outcome) ==
    CASE outcome = "ok" -> JsonDumpVectors(vs, ms)
      [] outcome = "fail" -> disk
      [] OTHER -> Corrupt

\* _load: vectors and metadata after it, from those of the new instance
VectorMemory_load(vs, ms, disk, outcome) ==
    IF disk = NoFile \/ disk = Corrupt \/ outcome = "fail"
    THEN [vectors |-> vs, metadata |-> ms]
    ELSE LET data == JsonLoadVectors(disk)
         IN  [vectors |-> Get(data, "vectors", <<>>),
              metadata |-> Get(data, "metadata", <<>>)]

\* store, lines 64-71: the metadata entry appended
store_entry(text, vector, meta) ==
    Update([text |-> text, embedding_dim |-> vector.dim], meta)

(***************************************************************************)
(* The state of the KnowledgeGraph instance as one value, and a call that  *)
(* ends in _save as a function on it.                                      *)
(***************************************************************************)
KG == [graph |-> graph, cur |-> current_session_id, disk |-> kg_disk,
       saves |-> kg_saves]

SetKG(k) ==
    /\ graph' = k.graph
    /\ current_session_id' = k.cur
    /\ kg_disk' = k.disk
    /\ kg_saves' = k.saves

\* the _save calls of an instance after one more
AfterSave(saves, o) == IF saves # "failed" /\ o = "ok" THEN "ok" ELSE "failed"

\* the document of before the call is written
Saved_before(k, g, o) ==
    [k EXCEPT !.graph = g,
              !.disk = KnowledgeGraph_save(k.disk, k.graph, o),
              !.saves = AfterSave(k.saves, o)]

\* a call that ends in _save: the document g in memory, and written
Saved(k, g, o) ==
    [k EXCEPT !.graph = g,
              !.disk = KnowledgeGraph_save(k.disk, g, o),
              !.saves = AfterSave(k.saves, o)]

\* start_session, lines 63-77
KG_start_session(k, query, t, o) ==
    [Saved(k, start_session_graph(k.graph, query, t, t), o)
        EXCEPT !.cur = start_session_id(k.graph, t)]

\* end_session, lines 87-93
KG_end_session(k, session_id, status, t, o) ==
    Saved(k, end_session_graph(k.graph, session_id, status, t), o)

\* log_agent_action, lines 109-137; ts = None is the argument left out
KG_log_agent_action(k, agent, action, data, ts, t, o) ==
    Saved(k, log_agent_action_graph(k.graph, k.cur, agent, action, data,
                                    IF ts = None THEN isoformat(t) ELSE ts), o)

\* get_session_history, lines 149-155; {} when no session has the id
KG_get_session_history(k, session_id) ==
    LET target_session_id == IF session_id = None THEN k.cur ELSE session_id
        i == FindSession(k.graph.sessions, target_session_id, 1)
    IN  IF i = 0 THEN <<>> ELSE k.graph.sessions[i]

\* get_agent_stats, lines 159-164
KG_get_agent_stats(k) ==
    [total_agents |-> Cardinality(DOMAIN k.graph.agents),
     total_actions |-> Len(k.graph.actions),
     total_sessions |-> Len(k.graph.sessions),
     agents |-> k.graph.agents]

\* file operations fail at most MaxIoFailures times in a behaviour
Failed(o) == IF o = "ok" THEN 0 ELSE 1
Allowed(n) == io_failures + n <= MaxIoFailures

\* the calls a behaviour makes on the component under test
Budget(component) ==
    CASE component \in {"KnowledgeGraph", "VectorMemory"} -> MaxCalls
      [] component \in {"SearchAgent.multi_source_search",
                        "SummarizerAgent.summarize"} -> 1
      [] OTHER -> MaxAgentCalls

Call(components) ==
    /\ under_test \in components
    /\ calls < Budget(under_test)
    /\ calls' = calls + 1
    /\ UNCHANGED <<env_vars, run_vars>>

(***************************************************************************)
(* The agents' _log_action (planner.py 117-125, search.py 186-194,         *)
(* summarizer.py 208-216): log_agent_action with the time of the call,     *)
(* when the agent holds a KnowledgeGraph.                                  *)
(***************************************************************************)
agent_log_action(k, has_kg, name, action, data, t, o) ==
    IF has_kg THEN KG_log_agent_action(k, name, action, data, isoformat(t), t, o)
    ELSE k

(***************************************************************************)
(* PlannerAgent (agents/planner.py).  An f-string is the sequence of its   *)
(* pieces.                                                                 *)
(***************************************************************************)
\* a plan whose summary waits for two of the three searches
decompose_query_two(query) ==
    << [id |-> 1, type |-> "search", query |-> query],
       [id |-> 2, type |-> "search", query |-> query],
       [id |-> 3, type |-> "search", query |-> query],
       [id |-> 4, type |-> "summarize", depends_on |-> <<1, 2>>],
       [id |-> 5, type |-> "write", depends_on |-> <<4>>] >>

\* _decompose_query, lines 77-115
decompose_query(query) ==
    << [id |-> 1, type |-> "search",
        description |-> <<"Search for current information about: ">> \o query,
        query |-> query, priority |-> "high"],
       [id |-> 2, type |-> "search",
        description |-> <<"Find recent trends and developments related to: ">> \o query,
        query |-> <<"recent trends ">> \o query, priority |-> "medium"],
       [id |-> 3, type |-> "search",
        description |-> <<"Gather expert opinions and analysis on: ">> \o query,
        query |-> <<"expert analysis ">> \o query, priority |-> "medium"],
       [id |-> 4, type |-> "summarize",
        description |-> <<"Synthesize all gathered information">>,
        priority |-> "high", depends_on |-> <<1, 2, 3>>],
       [id |-> 5, type |-> "write",
        description |-> <<"Generate comprehensive research report">>,
        priority |-> "high", depends_on |-> <<4>>] >>

\* the call of log_agent_action that raises in the object attached as
\* knowledge_graph: none, the first of an agent call, the second
LogRaises == {0, 1, 2}

\* plan, lines 54-64: the KnowledgeGraph after it and the list returned.
\* _log_action (117-125) has no handler: what log_agent_action raises, plan
\* raises
PlannerAgent_plan(k, has_kg, query, t, o1, o2, log_raises) ==
    LET k1 == agent_log_action(k, has_kg, "PlannerAgent", "planning_started",
                               [query |-> query], t, o1)
        subtasks == decompose_query(query)
        k2 == agent_log_action(k1, has_kg, "PlannerAgent", "planning_completed",
                               [query |-> query, subtask_count |-> Len(subtasks),
                                subtasks |-> subtasks], t, o2)
    IN  IF has_kg /\ log_raises = 1 THEN [kg |-> k, value |-> None, raised |-> TRUE]
        ELSE IF has_kg /\ log_raises = 2
             THEN [kg |-> k1, value |-> None, raised |-> TRUE]
             ELSE [kg |-> k2, value |-> subtasks, raised |-> FALSE]

(***************************************************************************)
(* SearchAgent (agents/search.py).  The provider (DDGS) yields the first   *)
(* max_results records of its answer; it may raise before the first        *)
(* record or, where it yields them one by one, after any of them.  A       *)
(* snippet is <<text, length>>.                                            *)
(***************************************************************************)
DefaultMaxResults == 5

\* max_results or self.max_results: None and 0 are both false
OrDefault(max_results) == IF max_results = 0 THEN DefaultMaxResults ELSE max_results

Min(a, b) == IF a < b THEN a ELSE b

\* the records the provider yields: the first max_results of its answer, cut
\* at raise_after when it raises (raise_after = -1: it does not raise)
Yielded(answer, max_results, raise_after) ==
    LET n == Min(Len(answer), max_results)
    IN  SubSeq(answer, 1, IF raise_after >= 0 THEN Min(n, raise_after) ELSE n)

\* _execute_search, lines 94-114: the exception is caught inside, the records
\* gathered so far are returned
execute_search(answer, max_results, raise_after) ==
    LET got == Yielded(answer, max_results, raise_after)
    IN  [raised |-> FALSE,
         results |-> [i \in 1..Len(got) |->
                        [rank |-> i,
                         title |-> Get(got[i], "title", "No title"),
                         snippet |-> Get(got[i], "body", <<"No description", 14>>),
                         url |-> Get(got[i], "href", ""),
                         source |-> "duckduckgo"]]]

\* search_news, lines 127-150
search_news(answer, max_results, raise_after) ==
    LET got == Yielded(answer, OrDefault(max_results), raise_after)
    IN  [i \in 1..Len(got) |->
            [rank |-> i,
             title |-> Get(got[i], "title", "No title"),
             snippet |-> Get(got[i], "body", <<"No description", 14>>),
             url |-> Get(got[i], "url", ""),
             source |-> "news",
             date |-> Get(got[i], "date", ""),
             search_type |-> "news"]]

\* search, lines 60-80: the KnowledgeGraph after it and the list returned
SearchAgent_search(k, has_kg, query, max_results, answer, raise_after, t, o1, o2) ==
    LET cap == OrDefault(max_results)
        k1 == agent_log_action(k, has_kg, "SearchAgent", "search_started",
                               [query |-> query], t, o1)
        r == execute_search(answer, cap, raise_after)
    IN  IF ~r.raised
        THEN [kg |-> agent_log_action(k1, has_kg, "SearchAgent", "search_completed",
                                      [query |-> query,
                                       result_count |-> Len(r.results),
                                       success |-> TRUE], t, o2),
              value |-> r.results]
        ELSE [kg |-> agent_log_action(k1, has_kg, "SearchAgent", "search_failed",
                                      [query |-> query, error |-> "error"], t, o2),
              value |-> <<>>]

\* every result with a URL kept
Dedup_all(all_results, i, seen_urls) ==
    SelectSeq(SubSeq(all_results, i, Len(all_results)),
              LAMBDA x : Get(x, "url", "") # "")

\* lines 174-180: the results with a non-empty URL not seen before, in order
RECURSIVE Dedup(_, _, _)
Dedup(all_results, i, seen_urls) ==
    IF i > Len(all_results) THEN <<>>
    ELSE LET url == Get(all_results[i], "url", "")
         IN  IF url # "" /\ url \notin seen_urls
             THEN <<all_results[i]>> \o Dedup(all_results, i + 1, seen_urls \cup {url})
             ELSE Dedup(all_results, i + 1, seen_urls)

\* line 182: the sort key (group, rank), and the order of two keys
SortKey(x) ==
    <<IF Get(x, "search_type", "") = "news" THEN -1 ELSE 0, Get(x, "rank", 999)>>

KeyLeq(a, b) == a[1] < b[1] \/ (a[1] = b[1] /\ a[2] <= b[2])

\* list.sort(key): stable insertion of x behind the elements whose key is not larger
RECURSIVE Insert(_, _)
Insert(sorted, x) ==
    IF sorted = <<>> THEN <<x>>
    ELSE IF KeyLeq(SortKey(sorted[Len(sorted)]), SortKey(x)) THEN Append(sorted, x)
    ELSE Append(Insert(SubSeq(sorted, 1, Len(sorted) - 1), x), sorted[Len(sorted)])

\* the list left as it is
Sort_none(s, i) == SubSeq(s, 1, i)

RECURSIVE Sort(_, _)
Sort(s, i) == IF i = 0 THEN <<>> ELSE Insert(Sort(s, i - 1), s[i])

\* multi_source_search, lines 164-184
multi_source_search(max_results, include_news, web, web_raise, news, news_raise) ==
    LET cap == OrDefault(max_results)
        web_results == execute_search(web, cap, web_raise).results
        all_results == IF include_news
                       THEN web_results \o search_news(news, cap \div 2, news_raise)
                       ELSE web_results
        unique_results == Sort(Dedup(all_results, 1, {}), Len(Dedup(all_results, 1, {})))
    IN  SubSeq(unique_results, 1, Min(Len(unique_results), cap * 2))

(***************************************************************************)
(* SummarizerAgent (agents/summarizer.py).  The text of a model response   *)
(* is the sequence of its tokens: a code fence, the word json, white       *)
(* space, and JSON documents.                                              *)
(***************************************************************************)
FindingsCap == 10
SourcesCap == 15
ContextCap == 15
SnippetCap == 200

\* __init__, lines 42-43; client: what config.get_llm_client() returns is not None
SummarizerAgent_init(use_llm, has_config, enable_llm_summarization, client) ==
    LET self_use_llm == use_llm /\ has_config /\ enable_llm_summarization
    IN  [use_llm |-> self_use_llm, llm_client |-> self_use_llm /\ client]

\* the whole list
Slice_all(s, n) == s

\* s[:n] of a list
Slice(s, n) == SubSeq(s, 1, Min(Len(s), n))

\* s[:n] of a text <<text, length>>
SliceText(s, n) == <<s[1], Min(s[2], n)>>

\* list.extend over the lists from the i-th on
RECURSIVE Extend(_, _)
Extend(lists, i) ==
    IF i > Len(lists) THEN <<>> ELSE lists[i] \o Extend(lists, i + 1)

\* the results joined, a URL seen before left out
Flatten_unique(lists) ==
    LET all == Extend(lists, 1)
    IN  SelectSeq([i \in 1..Len(all) |-> [all[i] EXCEPT !.rank = i]],
                  LAMBDA x : \A j \in 1..(x.rank - 1) :
                                 Get(all[j], "url", "") # Get(x, "url", ""))

\* lines 93-95 and 132-134: the lists joined in order
Flatten(lists) == Extend(lists, 1)

\* result.get("url") is true
HasUrl(result) == Get(result, "url", "") # ""

\* lines 108-111 and 189-192
SourceOf(result) ==
    [title |-> Get(result, "title", "Unknown"), url |-> Get(result, "url", "")]

\* every result is made a source
SourcesOf_any(results) == [i \in 1..Len(results) |-> SourceOf(results[i])]

SourcesOf(results) ==
    LET with_url == SelectSeq(results, HasUrl)
    IN  [i \in 1..Len(with_url) |-> SourceOf(with_url[i])]

\* _synthesize_information, lines 93-120
synthesize_information(lists) ==
    LET all_results == Flatten(lists)
        first == Slice(all_results, FindingsCap)
    IN  [key_findings |->
            [i \in 1..Len(first) |->
                [point |-> SliceText(Get(first[i], "snippet", <<"", 0>>), SnippetCap),
                 source |-> Get(first[i], "title", "Unknown"),
                 url |-> Get(first[i], "url", "")]],
         source_count |-> Len(all_results),
         sources |-> Slice(SourcesOf(first), SourcesCap),
         synthesis_method |-> "heuristic_extraction"]

\* the three backquotes of a code fence
Fence == "fence"
Whitespace == " "

\* the JSON documents a response may hold and what json.loads makes of them:
\* an object with every key, the empty object, an object whose key_findings
\* is null, an array
JsonDocuments ==
    [object |-> [is_dict |-> TRUE, findings |-> "list",
                 value |-> [key_findings |->
                               <<[point |-> <<"P1", 40>>, source |-> "T1",
                                  url |-> "u0", credibility |-> "high"]>>,
                            summary |-> "S1", themes |-> <<"t1">>,
                            credibility_notes |-> "c1"]],
     empty_object |-> [is_dict |-> TRUE, findings |-> "absent", value |-> <<>>],
     null_findings |-> [is_dict |-> TRUE, findings |-> "null",
                        value |-> [key_findings |-> None, summary |-> "S1"]],
     array |-> [is_dict |-> FALSE, findings |-> "absent", value |-> <<>>]]

Tokens == {Fence, "json", Whitespace} \cup DOMAIN JsonDocuments

\* str.strip()
RECURSIVE strip(_)
strip(text) ==
    IF text = <<>> THEN text
    ELSE IF Head(text) = Whitespace THEN strip(Tail(text))
    ELSE IF text[Len(text)] = Whitespace THEN strip(SubSeq(text, 1, Len(text) - 1))
    ELSE text

\* the positions at which sep (a sequence of tokens) occurs in text
Occurrences(text, sep) ==
    {i \in 1..(Len(text) - Len(sep) + 1) : SubSeq(text, i, i + Len(sep) - 1) = sep}

Contains(text, sep) == Occurrences(text, sep) # {}

First(S) == CHOOSE i \in S : \A j \in S : i <= j

\* text.split(sep)[0] and text.split(sep)[1], sep occurring in text for the latter
SplitAt0(text, sep) ==
    IF Contains(text, sep) THEN SubSeq(text, 1, First(Occurrences(text, sep)) - 1)
    ELSE text

SplitAt1(text, sep) ==
    SplitAt0(SubSeq(text, First(Occurrences(text, sep)) + Len(sep), Len(text)), sep)

\* lines 179-182
strip_fence(result_text) ==
    IF Contains(result_text, <<Fence, "json">>)
    THEN strip(SplitAt0(SplitAt1(result_text, <<Fence, "json">>), <<Fence>>))
    ELSE IF Contains(result_text, <<Fence>>)
    THEN strip(SplitAt0(SplitAt1(result_text, <<Fence>>), <<Fence>>))
    ELSE result_text

\* json.loads: one document, white space around it allowed
json_loads(text) ==
    LET t == strip(text)
    IN  IF Len(t) = 1 /\ t[1] \in DOMAIN JsonDocuments
        THEN [raised |-> FALSE] @@ JsonDocuments[t[1]]
        ELSE [raised |-> TRUE]

\* how the try block of lines 172-202 ends for a call of the model that
\* raises (the import of line 173 included) or returns this response
llm_outcome(llm) ==
    IF llm.raises THEN "raised"
    ELSE LET llm_result == json_loads(strip_fence(llm.response))
         IN  IF llm_result.raised THEN "unparsable"
             ELSE IF ~llm_result.is_dict THEN "not_object"
             ELSE "ok"

\* no fallback: a summary without findings
synthesize_with_llm_bare(lists, llm) ==
    [key_findings |-> <<>>, source_count |-> Len(Flatten(lists)), sources |-> <<>>,
     synthesis_method |-> "llm"]

\* _synthesize_with_llm, lines 132-206
synthesize_with_llm(lists, llm) ==
    LET all_results == Flatten(lists)
    IN  IF all_results = <<>> THEN synthesize_information(lists)
        ELSE IF llm_outcome(llm) # "ok" THEN synthesize_information(lists)
        ELSE LET llm_result == json_loads(strip_fence(llm.response)).value
             IN  [key_findings |-> Get(llm_result, "key_findings", <<>>),
                  source_count |-> Len(all_results),
                  sources |-> SourcesOf(Slice(all_results, ContextCap)),
                  synthesis_method |-> "llm",
                  summary |-> Get(llm_result, "summary", ""),
                  themes |-> Get(llm_result, "themes", <<>>),
                  credibility_notes |-> Get(llm_result, "credibility_notes", "")]

\* the summary holds None for key_findings: the model was called and its
\* response is an object whose key_findings is null
findings_none(self, lists, llm) ==
    /\ self.llm_client /\ Flatten(lists) # <<>>
    /\ llm_outcome(llm) = "ok"
    /\ json_loads(strip_fence(llm.response)).findings = "null"

\* summarize, lines 63-79; len(None) of line 75 raises
SummarizerAgent_summarize(k, has_kg, self, lists, llm, t, o1, o2) ==
    LET k1 == agent_log_action(k, has_kg, "SummarizerAgent", "summarization_started",
                               [source_count |-> Len(lists),
                                using_llm |-> self.use_llm /\ self.llm_client], t, o1)
        summary == IF self.llm_client THEN synthesize_with_llm(lists, llm)
                   ELSE synthesize_information(lists)
        k2 == agent_log_action(k1, has_kg, "SummarizerAgent", "summarization_completed",
                               [source_count |-> Len(lists),
                                key_points |-> IF findings_none(self, lists, llm)
                                               THEN None
                                               ELSE Len(Get(summary, "key_findings",
                                                            <<>>)),
                                method |-> IF self.llm_client THEN "llm" ELSE "heuristic"],
                               t, o2)
    IN  IF findings_none(self, lists, llm)
        THEN [kg |-> k1, value |-> None, raised |-> TRUE]
        ELSE [kg |-> k2, value |-> summary, raised |-> FALSE]

(***************************************************************************)
(* VectorMemory.search.  A vector [dim, num, normsq] is num / sqrt(normsq), *)
(* so its direction is that of num divided by the greatest common divisor  *)
(* of its entries.  A similarity [dot, norm1sq, norm2sq, ulps] is the      *)
(* float computed for dot / sqrt(norm1sq * norm2sq), vec1 being the        *)
(* query: where that quotient is exactly 1 the rounding                    *)
(* of the dot product and of the two norms leaves it ulps units in the     *)
(* last place away from 1.0; elsewhere the rounding is far below the       *)
(* distance between two scores and ulps is 0.                              *)
(***************************************************************************)
RECURSIVE GCD(_, _)
GCD(a, b) == IF b = 0 THEN a ELSE GCD(b, a % b)

RECURSIVE GCDOf(_, _)
GCDOf(v, S) ==
    IF S = {} THEN 0
    ELSE LET i == CHOOSE j \in S : TRUE
         IN  GCD(v[i], GCDOf(v, S \ {i}))

\* the entries of the vector in lowest terms, and the sum of their squares
Direction(vec) ==
    LET g == GCDOf(vec.num, DOMAIN vec.num)
        num == [i \in DOMAIN vec.num |-> vec.num[i] \div g]
    IN  [num |-> num, normsq |-> SumSquares(num, DOMAIN num)]

RECURSIVE DotProduct(_, _, _)
DotProduct(v1, v2, S) ==
    IF S = {} THEN 0
    ELSE LET i == CHOOSE j \in S : TRUE
         IN  v1[i] * v2[i] + DotProduct(v1, v2, S \ {i})

\* the errors in units in the last place of a quotient that is exactly 1
Ulps == {-1, 0, 1}

\* _cosine_similarity, lines 141-151; the norms of stored vectors are not 0
cosine_similarity(vec1, vec2, ulps) ==
    LET d1 == Direction(vec1)
        d2 == Direction(vec2)
        dot == DotProduct(d1.num, d2.num, DOMAIN d1.num \cap DOMAIN d2.num)
    IN  [dot |-> dot, norm1sq |-> d1.normsq, norm2sq |-> d2.normsq,
         ulps |-> IF dot * dot = d1.normsq * d2.normsq THEN ulps ELSE 0]

\* a > b on the similarities of one query (no dot product is negative)
ScoreGreater(a, b) ==
    \/ a.dot * a.dot * b.norm2sq > b.dot * b.dot * a.norm2sq
    \/ /\ a.dot * a.dot * b.norm2sq = b.dot * b.dot * a.norm2sq
       /\ a.ulps > b.ulps

\* x goes before the elements whose score is not larger
RankInsert_before(sorted, x) ==
    LET ahead == SelectSeq(sorted, LAMBDA y : ScoreGreater(y[2], x[2]))
    IN  ahead \o <<x>> \o SubSeq(sorted, Len(ahead) + 1, Len(sorted))

\* list.sort(key = score, reverse = True): stable, x goes behind the
\* elements whose score is not smaller
RECURSIVE RankInsert(_, _)
RankInsert(sorted, x) ==
    IF sorted = <<>> THEN <<x>>
    ELSE IF ~ScoreGreater(x[2], sorted[Len(sorted)][2]) THEN Append(sorted, x)
    ELSE Append(RankInsert(SubSeq(sorted, 1, Len(sorted) - 1), x), sorted[Len(sorted)])

RECURSIVE Rank(_, _)
Rank(similarities, i) ==
    IF i = 0 THEN <<>> ELSE RankInsert(Rank(similarities, i - 1), similarities[i])

\* top_k slots filled whatever the store holds
VectorMemory_search_slots(vs, ms, query_vector, top_k, ulps) ==
    [i \in 1..top_k |-> IF i <= Len(ms) THEN ms[i] ELSE [text |-> <<>>]]

\* search, lines 92-110
VectorMemory_search(vs, ms, query_vector, top_k, ulps) ==
    IF vs = <<>> THEN <<>>
    ELSE LET similarities ==
                 [idx \in 1..Len(vs) |->
                     <<idx, cosine_similarity(query_vector, vs[idx], ulps)>>]
             ranked == Rank(similarities, Len(similarities))
             top == SubSeq(ranked, 1, Min(Len(ranked), top_k))
         IN  [i \in 1..Len(top) |->
                 Update(ms[top[i][1]], [similarity_score |-> top[i][2]])]

\* the stored dicts themselves are given the score
stored_after_search_shared(vs, ms, query_vector, top_k, ulps) ==
    LET results == VectorMemory_search(vs, ms, query_vector, top_k, ulps)
        similarities ==
            [idx \in 1..Len(vs) |->
                <<idx, cosine_similarity(query_vector, vs[idx], ulps)>>]
        top == SubSeq(Rank(similarities, Len(similarities)), 1, Len(results))
    IN  [idx \in 1..Len(ms) |->
            IF \E i \in 1..Len(top) : top[i][1] = idx
            THEN Update(ms[idx], [similarity_score |-> similarities[idx][2]])
            ELSE ms[idx]]

\* search, line 106: a result is a copy of the stored dict, and the score is
\* written into the copy; self.metadata after the call
stored_after_search(vs, ms, query_vector, top_k, ulps) == ms

(***************************************************************************)
(* The calls a client of the two stores makes.  A call reads the clock     *)
(* once; the clock moves between calls (Tick).                             *)
(***************************************************************************)
LogAgents == {"PlannerAgent", "SearchAgent"}
Statuses == {"completed", "failed"}

\* an id no session has
UnknownId == <<"session", "_", 0, "_", 0>>

SessionIds(g) == {g.sessions[i].id : i \in 1..Len(g.sessions)}

\* the components whose calls read the clock and log into a session
Logging == {"KnowledgeGraph", "PlannerAgent.plan", "SearchAgent.search"}

Tick ==
    /\ Call(Logging)
    /\ clock' = clock + 1
    /\ ret' = [op |-> "tick"]
    /\ UNCHANGED <<kg_vars, vm_vars, io_failures>>

start_session(query) ==
    /\ Call(Logging)
    /\ \E o \in SaveOutcomes :
         /\ Allowed(Failed(o))
         /\ SetKG(KG_start_session(KG, query, clock, o))
         /\ io_failures' = io_failures + Failed(o)
         /\ ret' = [op |-> "start_session", value |-> start_session_id(graph, clock),
                    save |-> o]
    /\ UNCHANGED <<clock, vm_vars>>

end_session(session_id, status) ==
    /\ Call({"KnowledgeGraph"})
    /\ \E o \in SaveOutcomes :
         /\ Allowed(Failed(o))
         /\ SetKG(KG_end_session(KG, session_id, status, clock, o))
         /\ io_failures' = io_failures + Failed(o)
         /\ ret' = [op |-> "end_session", session_id |-> session_id,
                    status |-> status, save |-> o]
    /\ UNCHANGED <<clock, vm_vars>>

log_agent_action(agent, action, data, ts) ==
    /\ Call({"KnowledgeGraph"})
    /\ \E o \in SaveOutcomes :
         /\ Allowed(Failed(o))
         /\ SetKG(KG_log_agent_action(KG, agent, action, data, ts, clock, o))
         /\ io_failures' = io_failures + Failed(o)
         /\ ret' = [op |-> "log_agent_action", agent |-> agent,
                    timestamp |-> IF ts = None THEN isoformat(clock) ELSE ts,
                    save |-> o]
    /\ UNCHANGED <<clock, vm_vars>>

\* after: the call made before this one
get_session_history(session_id) ==
    /\ Call({"KnowledgeGraph"})
    /\ ret' = [op |-> "get_session_history", session_id |-> session_id,
               after |-> ret.op, value |-> KG_get_session_history(KG, session_id)]
    /\ UNCHANGED <<clock, kg_vars, vm_vars, io_failures>>

get_agent_stats ==
    /\ Call({"KnowledgeGraph"})
    /\ ret' = [op |-> "get_agent_stats", after |-> ret.op,
               value |-> KG_get_agent_stats(KG)]
    /\ UNCHANGED <<clock, kg_vars, vm_vars, io_failures>>

\* KnowledgeGraph(): a new instance on the same file takes the place of this one
KnowledgeGraph_init ==
    /\ Call({"KnowledgeGraph"})
    /\ \E o \in LoadOutcomes :
         /\ Allowed(Failed(o))
         /\ graph' = KnowledgeGraph_load(DefaultGraph(clock), kg_disk, o)
         /\ current_session_id' = None
         /\ kg_saves' = "none"
         /\ io_failures' = io_failures + Failed(o)
         /\ ret' = [op |-> "KnowledgeGraph", saves |-> kg_saves, load |-> o,
                    raised |-> FALSE]
    /\ UNCHANGED <<clock, kg_disk, vm_vars>>

\* "p" and "P0"
Texts == {<<112>>, <<80, 48>>}
TopKs == {1, 2, 5}
Metas == {[type |-> "research_query", source_count |-> 2],
          [type |-> "key_finding", source |-> "T1"]}

\* hash(text) in this process: the value it had before, or a new one
HashesOf(hashed, text) ==
    IF text \in DOMAIN hashed THEN {hashed[text]} ELSE HashIdx

Hashes(text) == HashesOf(str_hash, text)

store(text, meta) ==
    /\ Call({"VectorMemory"})
    /\ \E o \in SaveOutcomes, h \in Hashes(lower(text)) :
         LET vector == simple_embedding(text, h)
             vs == Append(vectors, vector)
             ms == Append(metadata, store_entry(text, vector, meta))
         IN  /\ Allowed(Failed(o))
             /\ vectors' = vs
             /\ metadata' = ms
             /\ vm_disk' = VectorMemory_save(vm_disk, vs, ms, o)
             /\ vm_saves' = AfterSave(vm_saves, o)
             /\ str_hash' = (lower(text) :> h) @@ str_hash
             /\ io_failures' = io_failures + Failed(o)
             /\ ret' = [op |-> "store", text |-> text, meta |-> meta, save |-> o]
    /\ UNCHANGED <<clock, kg_vars>>

\* VectorMemory.search, lines 92-110; the store empty, it returns before it
\* embeds the query.  after: the call made before this one
vm_search(query, top_k) ==
    /\ Call({"VectorMemory"})
    /\ Len(metadata) >= Len(vectors)
    /\ IF vectors = <<>>
       THEN /\ ret' = [op |-> "vm_search", query |-> query, top_k |-> top_k,
                       after |-> ret.op,
                       value |-> VectorMemory_search(vectors, metadata, <<>>,
                                                     top_k, 0)]
            /\ UNCHANGED <<str_hash, metadata>>
       ELSE \E h \in Hashes(lower(query)), ulps \in Ulps :
              /\ ret' = [op |-> "vm_search", query |-> query, top_k |-> top_k,
                         after |-> ret.op,
                         value |-> VectorMemory_search(vectors, metadata,
                                       simple_embedding(query, h), top_k, ulps)]
              /\ metadata' = stored_after_search(vectors, metadata,
                                  simple_embedding(query, h), top_k, ulps)
              /\ str_hash' = (lower(query) :> h) @@ str_hash
    /\ UNCHANGED <<clock, kg_vars, vectors, vm_disk, vm_saves, io_failures>>

\* VectorMemory(): a new instance on the same file, in this process or in a
\* new one, takes the place of this one
\* os.makedirs of line 47 is outside every handler: when it fails,
\* VectorMemory() raises and there is no new instance
VectorMemory_init ==
    /\ Call({"VectorMemory"})
    /\ \/ /\ Allowed(1)
          /\ io_failures' = io_failures + 1
          /\ ret' = [op |-> "VectorMemory", saves |-> vm_saves, load |-> "none",
                     raised |-> TRUE]
          /\ UNCHANGED <<vectors, metadata, vm_saves, str_hash>>
       \/ \E o \in LoadOutcomes, hs \in {str_hash, <<>>} :
            LET m == VectorMemory_load(<<>>, <<>>, vm_disk, o)
            IN  /\ Allowed(Failed(o))
                /\ vectors' = m.vectors
                /\ metadata' = m.metadata
                /\ vm_saves' = "none"
                /\ str_hash' = hs
                /\ io_failures' = io_failures + Failed(o)
                /\ ret' = [op |-> "VectorMemory", saves |-> vm_saves, load |-> o,
                           raised |-> FALSE]
    /\ UNCHANGED <<clock, vm_disk, kg_vars>>

\* the outcomes of the two _save calls of an agent call
SavePairs(has_kg) ==
    {p \in SaveOutcomes \X SaveOutcomes :
        /\ Allowed(Failed(p[1]) + Failed(p[2]))
        /\ has_kg \/ p = <<"ok", "ok">>}

plan(query) ==
    /\ Call({"PlannerAgent.plan"})
    /\ \E p \in SavePairs(agent_kg), log_raises \in LogRaises :
         LET r == PlannerAgent_plan(KG, agent_kg, query, clock, p[1], p[2],
                                    log_raises)
         IN  /\ log_raises # 0 => agent_kg /\ p[2] = "ok"
             /\ log_raises = 1 => p[1] = "ok"
             /\ SetKG(r.kg)
             /\ io_failures' = io_failures + Failed(p[1]) + Failed(p[2])
             /\ ret' = [op |-> "plan", query |-> query, log_raises |-> log_raises,
                        raised |-> r.raised, value |-> r.value]
    /\ UNCHANGED <<clock, vm_vars>>

\* where the provider may raise on this answer: nowhere (-1), before the
\* first record (0), after the i-th
RaisePoints(answer) == -1 .. Len(answer)

search(query, max_results) ==
    /\ Call({"SearchAgent.search"})
    /\ \E p \in SavePairs(agent_kg), raise_after \in RaisePoints(web_answer) :
         LET r == SearchAgent_search(KG, agent_kg, query, max_results, web_answer,
                                     raise_after, clock, p[1], p[2])
         IN  /\ SetKG(r.kg)
             /\ io_failures' = io_failures + Failed(p[1]) + Failed(p[2])
             /\ ret' = [op |-> "search", query |-> query, value |-> r.value,
                        provider_raised |-> raise_after >= 0,
                        logged |-> Len(r.kg.graph.actions) - Len(graph.actions)]
    /\ UNCHANGED <<clock, vm_vars>>

\* a source that raises after some records returns what another answer (the
\* records before that point) returns in full, so here a source raises
\* before its first record or not at all
multi_search(max_results, include_news) ==
    /\ Call({"SearchAgent.multi_source_search"})
    /\ \E web_raise \in {-1, 0}, news_raise \in {-1, 0} :
         ret' = [op |-> "multi_source_search", max_results |-> max_results,
                 include_news |-> include_news,
                 web |-> execute_search(web_answer, OrDefault(max_results),
                                        web_raise).results,
                 news |-> IF include_news
                          THEN search_news(news_answer, OrDefault(max_results) \div 2,
                                           news_raise)
                          ELSE <<>>,
                 value |-> multi_source_search(max_results, include_news, web_answer,
                                               web_raise, news_answer, news_raise)]
    /\ UNCHANGED <<clock, kg_vars, vm_vars, io_failures>>

\* the calls of the model summarize may make: none without a client or on
\* an empty input, else one that raises or returns a response
LlmCallsOn(self, lists, max_tokens) ==
    IF self.llm_client /\ Flatten(lists) # <<>>
    THEN {[called |-> TRUE, raises |-> TRUE, response |-> <<>>]} \cup
         {[called |-> TRUE, raises |-> FALSE, response |-> r] :
             r \in UNION {[1..m -> Tokens] : m \in 0..max_tokens}}
    ELSE {[called |-> FALSE, raises |-> FALSE, response |-> <<>>]}

LlmCalls == LlmCallsOn(summarizer, search_results, MaxTokens)

summarize ==
    /\ Call({"SummarizerAgent.summarize"})
    /\ \E p \in SavePairs(agent_kg), llm \in LlmCalls :
         LET r == SummarizerAgent_summarize(KG, agent_kg, summarizer, search_results,
                                            llm, clock, p[1], p[2])
         IN  /\ SetKG(r.kg)
             /\ io_failures' = io_failures + Failed(p[1]) + Failed(p[2])
             /\ ret' = [op |-> "summarize", llm |-> llm,
                        outcome |-> IF llm.called THEN llm_outcome(llm) ELSE "not_called",
                        raised |-> r.raised, value |-> r.value]
    /\ UNCHANGED <<clock, vm_vars>>

(***************************************************************************)
(* The records of the provider, and the answers it may hold.               *)
(***************************************************************************)
RawWeb == {[title |-> "T1", body |-> <<"B1", 120>>, href |-> "u1"],
           [title |-> "T2", body |-> <<"B2", 250>>, href |-> "u2"],
           [title |-> "T3", body |-> <<"B3", 80>>, href |-> "u1"],
           [body |-> <<"B4", 10>>]}

RawNews == {[title |-> "N1", body |-> <<"B5", 90>>, url |-> "u1", date |-> "d1"],
            [title |-> "N2", body |-> <<"B6", 90>>, url |-> "u3"]}

\* the sequences over S of length at most n
SeqUpTo(S, n) == UNION {[1..m -> S] : m \in 0..n}

\* the answers a logged search is tried on
SearchAnswers ==
    {<<>>,
     <<[title |-> "T1", body |-> <<"B1", 120>>, href |-> "u1"]>>,
     <<[title |-> "T1", body |-> <<"B1", 120>>, href |-> "u1"],
       [body |-> <<"B4", 10>>],
       [title |-> "T2", body |-> <<"B2", 250>>, href |-> "u2"]>>}

\* the result lists summarize is tried on: none, a list of two results that
\* lack keys, a page of eight results
Titles == <<"T1", "T2", "T3", "T4", "T5", "T6", "T7", "T8">>
Bodies == <<"B1", "B2", "B3", "B4", "B5", "B6", "B7", "B8">>
Urls == <<"u1", "u2", "u3", "u4", "u5", "u6", "u7", "u8">>

ResultLists ==
    {<<>>,
     <<[rank |-> 1, title |-> "T9", snippet |-> <<"B9", 250>>, url |-> "",
        source |-> "duckduckgo"],
       [rank |-> 2, url |-> "u9"]>>,
     [i \in 1..Len(Urls) |->
         [rank |-> i, title |-> Titles[i], snippet |-> <<Bodies[i], 100>>,
          url |-> Urls[i], source |-> "duckduckgo"]]}

(***************************************************************************)
(* AutonomousResearchAgent.research (main.py), one step for each call it   *)
(* makes; every call takes a tick of the clock.  In an outage every        *)
(* provider call, model call and store save of the run fails.              *)
(* WriterAgent is outside this source: write_report is its contract,       *)
(* (query, summary) -> report text.                                        *)
(***************************************************************************)
NoRun == [trace |-> <<>>]

\* the outcomes of the n _save calls of a step
SaveChoices(outage, n) ==
    IF outage THEN {[i \in 1..n |-> "fail"]}
    ELSE {os \in [1..n -> SaveOutcomes] :
             Cardinality({i \in 1..n : os[i] # "ok"}) + io_failures <= MaxIoFailures}

Failures(outage, os) ==
    IF outage THEN 0 ELSE Cardinality({i \in 1..Len(os) : os[i] # "ok"})

Event(call, arg) == [call |-> call, arg |-> arg]

Step(from, to) ==
    /\ under_test = "AutonomousResearchAgent.research"
    /\ pc = from
    /\ pc' = to
    /\ clock' = clock + 1
    /\ UNCHANGED env_vars

\* line 80
research_start(query) ==
    /\ pc \in {"idle", "done", "raised"}
    /\ calls < MaxRuns
    /\ Step(pc, "plan")
    /\ calls' = calls + 1
    /\ \E outage \in BOOLEAN :
         \E os \in SaveChoices(outage, 1) :
           /\ SetKG(KG_start_session(KG, query, clock, os[1]))
           /\ io_failures' = io_failures + Failures(outage, os)
           /\ run' = [outage |-> outage, query |-> query,
                      session_id |-> start_session_id(graph, clock),
                      trace |-> <<Event("start_session", query)>>]
    /\ ret' = [op |-> "research", call |-> "start_session"]
    /\ UNCHANGED vm_vars

\* line 89
research_plan ==
    /\ Step("plan", "search")
    /\ \E os \in SaveChoices(run.outage, 2) :
         LET r == PlannerAgent_plan(KG, agent_kg, run.query, clock, os[1], os[2], 0)
         IN  /\ SetKG(r.kg)
             /\ io_failures' = io_failures + Failures(run.outage, os)
             /\ run' = [subtasks |-> r.value, i |-> 1, search_results |-> <<>>,
                        trace |-> Append(run.trace, Event("plan", run.query))] @@ run
    /\ ret' = [op |-> "research", call |-> "plan"]
    /\ UNCHANGED <<vm_vars, calls>>

\* a loop that is left after its first turn
research_search_once ==
    /\ Step("search", "summarize")
    /\ \E os \in SaveChoices(run.outage, 2) :
         LET subtask == run.subtasks[run.i]
             r == SearchAgent_search(KG, agent_kg, Get(subtask, "query", <<>>), 0,
                      web_answer[1], 0, clock, os[1], os[2])
         IN  /\ SetKG(r.kg)
             /\ io_failures' = io_failures + Failures(run.outage, os)
             /\ run' = [run EXCEPT
                          !.i = @ + 1,
                          !.search_results = Append(@, r.value),
                          !.trace = Append(@, Event("search",
                                       [id |-> subtask.id, returned |-> Len(r.value)]))]
    /\ ret' = [op |-> "research", call |-> "search"]
    /\ UNCHANGED <<vm_vars, calls>>

\* _execute_searches, lines 124-128: one turn of the loop, on subtask i
research_search ==
    /\ Step("search", IF run.i = Len(run.subtasks) THEN "summarize" ELSE "search")
    /\ LET subtask == run.subtasks[run.i]
       IN  IF Get(subtask, "type", "") = "search"
           THEN \E os \in SaveChoices(run.outage, 2),
                   raise_after \in IF run.outage THEN {0} ELSE {-1, 0} :
                  LET query == Get(subtask, "query", <<>>)
                      r == SearchAgent_search(KG, agent_kg, query, 0,
                               web_answer[Len(run.search_results) + 1],
                               raise_after, clock, os[1], os[2])
                  IN  /\ SetKG(r.kg)
                      /\ io_failures' = io_failures + Failures(run.outage, os)
                      /\ run' = [run EXCEPT
                                   !.i = @ + 1,
                                   !.search_results = Append(@, r.value),
                                   !.trace = Append(@, Event("search",
                                                [id |-> subtask.id,
                                                 returned |-> Len(r.value)]))]
           ELSE /\ run' = [run EXCEPT !.i = @ + 1]
                /\ UNCHANGED <<kg_vars, io_failures>>
    /\ ret' = [op |-> "research", call |-> "search"]
    /\ UNCHANGED <<vm_vars, calls>>

\* line 101; the response of the model is one token or none
research_summarize ==
    /\ pc = "summarize"
    /\ \E os \in SaveChoices(run.outage, 2),
          llm \in {c \in LlmCallsOn(summarizer, run.search_results, 1) :
                      run.outage /\ c.called => c.raises} :
         LET r == SummarizerAgent_summarize(KG, agent_kg, summarizer,
                      run.search_results, llm, clock, os[1], os[2])
         IN  /\ Step("summarize", IF r.raised THEN "raised" ELSE "write_report")
             /\ SetKG(r.kg)
             /\ io_failures' = io_failures + Failures(run.outage, os)
             /\ run' = IF r.raised
                       THEN [run EXCEPT !.trace = Append(@, Event("summarize", "raised"))]
                       ELSE [summary |-> r.value,
                             trace |-> Append(run.trace, Event("summarize", "returned"))]
                            @@ run
    /\ ret' = [op |-> "research", call |-> "summarize"]
    /\ UNCHANGED <<vm_vars, calls>>

\* WriterAgent.write_report: the report text for (query, summary)
write_report(query, summary) == <<"report: ">> \o query

\* line 106
research_write_report ==
    /\ Step("write_report", "save_report")
    /\ run' = [report |-> write_report(run.query, run.summary),
               trace |-> Append(run.trace, Event("write_report", run.query))] @@ run
    /\ ret' = [op |-> "research", call |-> "write_report"]
    /\ UNCHANGED <<kg_vars, vm_vars, io_failures, calls>>

\* _save_report, lines 134-144: the path of the report; the pieces of the
\* query in this model are letters and digits, which the sanitising keeps
report_filepath(query, t) == <<"storage/reports/", "report_">> \o query \o <<"_", t, ".md">>

\* line 107: makedirs or open may raise, and nothing in research catches it
research_save_report ==
    /\ pc = "save_report"
    /\ \E o \in {"ok", "fail"} :
         /\ Step("save_report", IF o = "ok" THEN "update_memory" ELSE "raised")
         /\ run' = [report_path |-> IF o = "ok" THEN report_filepath(run.query, clock)
                                    ELSE None,
                    trace |-> Append(run.trace, Event("save_report", o))] @@ run
    /\ ret' = [op |-> "research", call |-> "save_report"]
    /\ UNCHANGED <<kg_vars, vm_vars, io_failures, calls>>

\* the characters of a text of a run: those of its name.  A query is named
\* by its pieces, a snippet <<name, length>> by its name
CodePoints ==
    [q1 |-> <<113, 49>>, q2 |-> <<113, 50>>, B1 |-> <<98, 49>>, B2 |-> <<98, 50>>,
     B4 |-> <<98, 52>>, P1 |-> <<112, 49>>]

Characters(text) ==
    IF text = <<>> THEN <<>>
    ELSE IF text[1] \in DOMAIN CodePoints THEN CodePoints[text[1]]
    ELSE <<>>

\* every finding is stored
memory_items_all(query, summary, t) ==
    LET findings == Get(summary, "key_findings", <<>>)
    IN  <<[text |-> query,
           metadata |-> [type |-> "research_query", timestamp |-> isoformat(t),
                         key_findings_count |-> Len(findings),
                         source_count |-> Get(summary, "source_count", 0)]]>> \o
        [i \in 1..Len(findings) |->
            [text |-> Get(findings[i], "point", <<>>),
             metadata |-> [type |-> "key_finding", query |-> query,
                           source |-> Get(findings[i], "source", "Unknown"),
                           timestamp |-> isoformat(t)]]]

\* _update_memory, lines 148-167: the (text, metadata) pairs it stores
memory_items(query, summary, t) ==
    LET findings == Slice(Get(summary, "key_findings", <<>>), 5)
    IN  <<[text |-> query,
           metadata |-> [type |-> "research_query", timestamp |-> isoformat(t),
                         key_findings_count |-> Len(Get(summary, "key_findings", <<>>)),
                         source_count |-> Get(summary, "source_count", 0)]]>> \o
        [i \in 1..Len(findings) |->
            [text |-> Get(findings[i], "point", <<>>),
             metadata |-> [type |-> "key_finding", query |-> query,
                           source |-> Get(findings[i], "source", "Unknown"),
                           timestamp |-> isoformat(t)]]]

\* VectorMemory.store of one item, hash(text) being h for a text not hashed
\* before; o: the outcome of _save
StoreOne(vm, item, h, o) ==
    LET chars == lower(Characters(item.text))
        hc == IF chars \in DOMAIN vm.str_hash THEN vm.str_hash[chars] ELSE h
        vector == simple_embedding(Characters(item.text), hc)
        vs == Append(vm.vectors, vector)
        ms == Append(vm.metadata, store_entry(item.text, vector, item.metadata))
    IN  [vectors |-> vs, metadata |-> ms,
         disk |-> VectorMemory_save(vm.disk, vs, ms, o),
         saves |-> AfterSave(vm.saves, o),
         str_hash |-> (chars :> hc) @@ vm.str_hash]

\* the items from the i-th on stored in turn
RECURSIVE StoreAll(_, _, _, _, _)
StoreAll(vm, items, i, h, os) ==
    IF i > Len(items) THEN vm
    ELSE StoreAll(StoreOne(vm, items[i], h, os[i]), items, i + 1, h, os)

\* line 112
research_update_memory ==
    /\ Step("update_memory", "end_session")
    /\ LET items == memory_items(run.query, run.summary, clock)
       IN  \E os \in SaveChoices(run.outage, Len(items)), h \in HashIdx :
             LET vm == StoreAll([vectors |-> vectors, metadata |-> metadata,
                                 disk |-> vm_disk, saves |-> vm_saves,
                                 str_hash |-> str_hash], items, 1, h, os)
             IN  /\ vectors' = vm.vectors
                 /\ metadata' = vm.metadata
                 /\ vm_disk' = vm.disk
                 /\ vm_saves' = vm.saves
                 /\ str_hash' = vm.str_hash
                 /\ io_failures' = io_failures + Failures(run.outage, os)
                 /\ run' = [run EXCEPT !.trace =
                              @ \o [i \in 1..Len(items) |-> Event("store", items[i].text)]]
    /\ ret' = [op |-> "research", call |-> "update_memory"]
    /\ UNCHANGED <<kg_vars, calls>>

\* line 116
research_end_session ==
    /\ Step("end_session", "done")
    /\ \E os \in SaveChoices(run.outage, 1) :
         /\ SetKG(KG_end_session(KG, run.session_id, "completed", clock, os[1]))
         /\ io_failures' = io_failures + Failures(run.outage, os)
    /\ run' = [run EXCEPT !.trace = Append(@, Event("end_session", run.session_id))]
    /\ ret' = [op |-> "research", call |-> "end_session", value |-> run.report_path]
    /\ UNCHANGED <<vm_vars, calls>>

\* the answers of the provider in a run: to the first, second, third search
RunAnswers ==
    {<<[title |-> "T1", body |-> <<"B1", 120>>, href |-> "u1"]>>,
     <<[title |-> "T2", body |-> <<"B2", 250>>, href |-> "u2"],
       [title |-> "T1", body |-> <<"B1", 120>>, href |-> "u1"]>>}

ResearchInit ==
    /\ under_test = "AutonomousResearchAgent.research"
    /\ agent_kg = TRUE
    /\ web_answer \in [1..3 -> RunAnswers]
    /\ news_answer = <<>>
    /\ \E has_config, enabled, client \in BOOLEAN :
          summarizer = SummarizerAgent_init(TRUE, has_config, enabled, client)
    /\ search_results = <<>>
    /\ instances = <<>>
    /\ clock = 0
    /\ graph = DefaultGraph(0)
    /\ current_session_id = None
    /\ kg_disk = NoFile
    /\ kg_saves = "none"
    /\ vectors = <<>>
    /\ metadata = <<>>
    /\ vm_disk = NoFile
    /\ vm_saves = "none"
    /\ str_hash = <<>>
    /\ io_failures = 0
    /\ calls = 0
    /\ pc = "idle"
    /\ run = NoRun
    /\ ret = [op |-> "init"]

ResearchNext ==
    \/ \E query \in Queries : research_start(query)
    \/ research_plan
    \/ research_search
    \/ research_summarize
    \/ research_write_report
    \/ research_save_report
    \/ research_update_memory
    \/ research_end_session

\* a call that has begun returns
ResearchSpec == ResearchInit /\ [][ResearchNext]_vars /\ WF_vars(ResearchNext)

(***************************************************************************)
(* Two instances of one store on the same file (two sessions, in one       *)
(* process or in two): each has its own document in memory, both read and  *)
(* write the one file.  A call of an instance is made as a whole; the      *)
(* calls of the two instances are made in any order.                       *)
(***************************************************************************)
InstanceNames == {"a", "b"}

NewInstance == [loaded |-> FALSE]

\* the files a store has written before the two instances are made
PersistedGraphs ==
    {JsonDumpGraph(DefaultGraph(0)),
     JsonDumpGraph(start_session_graph(DefaultGraph(0), <<"q1">>, 0, 0))}

PersistedVectors ==
    {JsonDumpVectors(<<>>, <<>>),
     JsonDumpVectors(<<simple_embedding(<<112>>, 0)>>,
                     <<store_entry(<<112>>, simple_embedding(<<112>>, 0),
                                   [type |-> "key_finding", source |-> "T1"])>>)}

InstanceCall(component) ==
    /\ under_test = component
    /\ calls < MaxCalls
    /\ calls' = calls + 1
    /\ UNCHANGED <<under_test, agent_kg, web_answer, news_answer, summarizer,
                   search_results, run_vars, graph, current_session_id, kg_saves,
                   vectors, metadata, vm_saves, str_hash>>

\* the file an instance has read its document from, None if it has read none
LoadedFrom(disk, o) ==
    IF disk = NoFile \/ disk = Corrupt \/ o = "fail" THEN None ELSE disk

\* KnowledgeGraph(), lines 40-51, of instance p
instance_KnowledgeGraph_init(p) ==
    /\ InstanceCall("KnowledgeGraph instances")
    /\ ~instances.at[p].loaded
    /\ \E o \in LoadOutcomes :
         /\ Allowed(Failed(o))
         /\ instances' = [instances EXCEPT !.at[p] =
                             [loaded |-> TRUE,
                              from |-> LoadedFrom(kg_disk, o),
                              graph |-> KnowledgeGraph_load(DefaultGraph(clock),
                                                            kg_disk, o),
                              cur |-> None,
                              saves |-> "none",
                              added |-> <<>>]]
         /\ io_failures' = io_failures + Failed(o)
         /\ ret' = [op |-> "KnowledgeGraph", instance |-> p, load |-> o]
    /\ UNCHANGED <<clock, kg_disk, vm_disk>>

\* the KnowledgeGraph instance p as one value
InstanceKG(p) ==
    [graph |-> instances.at[p].graph, cur |-> instances.at[p].cur,
     disk |-> kg_disk, saves |-> instances.at[p].saves]

\* instance p after a call that added the record rec and ended in _save
SetInstanceKG(p, k, rec, o) ==
    /\ kg_disk' = k.disk
    /\ instances' = [at |-> [instances.at EXCEPT ![p] =
                                [@ EXCEPT !.graph = k.graph, !.cur = k.cur,
                                          !.saves = k.saves,
                                          !.added = Append(@, rec)]],
                     saves |-> Append(instances.saves,
                                      [instance |-> p, outcome |-> o])]
    /\ io_failures' = io_failures + Failed(o)

\* start_session of instance p
instance_start_session(p, query) ==
    /\ InstanceCall("KnowledgeGraph instances")
    /\ instances.at[p].loaded
    /\ \E o \in SaveOutcomes :
         LET k == KG_start_session(InstanceKG(p), query, clock, o)
         IN  /\ Allowed(Failed(o))
             /\ SetInstanceKG(p, k, <<"session", k.graph.sessions[Len(k.graph.sessions)]>>, o)
             /\ ret' = [op |-> "start_session", instance |-> p, save |-> o]
    /\ UNCHANGED <<clock, vm_disk>>

\* log_agent_action of instance p
instance_log_agent_action(p, agent, action, data) ==
    /\ InstanceCall("KnowledgeGraph instances")
    /\ instances.at[p].loaded
    /\ \E o \in SaveOutcomes :
         LET k == KG_log_agent_action(InstanceKG(p), agent, action, data, None,
                                      clock, o)
         IN  /\ Allowed(Failed(o))
             /\ SetInstanceKG(p, k, <<"action", k.graph.actions[Len(k.graph.actions)]>>, o)
             /\ ret' = [op |-> "log_agent_action", instance |-> p, save |-> o]
    /\ UNCHANGED <<clock, vm_disk>>

\* VectorMemory(), lines 43-48, of instance p, in a process of its own or in
\* the process of the other instance
instance_VectorMemory_init(p) ==
    /\ InstanceCall("VectorMemory instances")
    /\ ~instances.at[p].loaded
    /\ \/ /\ Allowed(1)
          /\ io_failures' = io_failures + 1
          /\ ret' = [op |-> "VectorMemory", instance |-> p, load |-> "none",
                     raised |-> TRUE]
          /\ UNCHANGED instances
       \/ \E o \in LoadOutcomes :
            LET m == VectorMemory_load(<<>>, <<>>, vm_disk, o)
            IN  /\ Allowed(Failed(o))
                /\ instances' = [instances EXCEPT !.at[p] =
                                    [loaded |-> TRUE,
                                     from |-> LoadedFrom(vm_disk, o),
                                     vectors |-> m.vectors,
                                     metadata |-> m.metadata,
                                     str_hash |-> <<>>,
                                     added |-> <<>>]]
                /\ io_failures' = io_failures + Failed(o)
                /\ ret' = [op |-> "VectorMemory", instance |-> p, load |-> o,
                           raised |-> FALSE]
    /\ UNCHANGED <<clock, kg_disk, vm_disk>>

\* store of instance p
instance_store(p, text, meta) ==
    /\ InstanceCall("VectorMemory instances")
    /\ instances.at[p].loaded
    /\ \E o \in SaveOutcomes, h \in HashesOf(instances.at[p].str_hash, lower(text)) :
         LET vector == simple_embedding(text, h)
             entry == store_entry(text, vector, meta)
             vs == Append(instances.at[p].vectors, vector)
             ms == Append(instances.at[p].metadata, entry)
         IN  /\ Allowed(Failed(o))
             /\ vm_disk' = VectorMemory_save(vm_disk, vs, ms, o)
             /\ instances' =
                    [at |-> [instances.at EXCEPT ![p] =
                               [@ EXCEPT !.vectors = vs, !.metadata = ms,
                                         !.str_hash = (lower(text) :> h) @@ @,
                                         !.added = Append(@, <<vector, entry>>)]],
                     saves |-> Append(instances.saves,
                                      [instance |-> p, outcome |-> o])]
             /\ io_failures' = io_failures + Failed(o)
             /\ ret' = [op |-> "store", instance |-> p, save |-> o]
    /\ UNCHANGED <<clock, kg_disk>>

\* time passes between two calls
instances_tick ==
    /\ InstanceCall(under_test)
    /\ under_test \in {"KnowledgeGraph instances", "VectorMemory instances"}
    /\ clock' = clock + 1
    /\ ret' = [op |-> "tick"]
    /\ UNCHANGED <<kg_disk, vm_disk, instances, io_failures>>

InstancesInit ==
    /\ under_test \in {"KnowledgeGraph instances", "VectorMemory instances"}
    /\ kg_disk \in IF under_test = "KnowledgeGraph instances"
                    THEN {NoFile} \cup PersistedGraphs ELSE {NoFile}
    /\ vm_disk \in IF under_test = "VectorMemory instances"
                    THEN {NoFile} \cup PersistedVectors ELSE {NoFile}
    /\ instances = [at |-> [p \in InstanceNames |-> NewInstance], saves |-> <<>>]
    /\ agent_kg = TRUE
    /\ web_answer = <<>>
    /\ news_answer = <<>>
    /\ summarizer = SummarizerAgent_init(FALSE, FALSE, FALSE, FALSE)
    /\ search_results = <<>>
    /\ clock = 0
    /\ graph = DefaultGraph(0)
    /\ current_session_id = None
    /\ kg_saves = "none"
    /\ vectors = <<>>
    /\ metadata = <<>>
    /\ vm_saves = "none"
    /\ str_hash = <<>>
    /\ io_failures = 0
    /\ calls = 0
    /\ pc = "idle"
    /\ run = NoRun
    /\ ret = [op |-> "init"]

InstancesNext ==
    \/ \E p \in InstanceNames : instance_KnowledgeGraph_init(p)
    \/ \E p \in InstanceNames, q \in Queries : instance_start_session(p, q)
    \/ \E p \in InstanceNames, a \in LogAgents :
          instance_log_agent_action(p, a, "note", [note |-> "n1"])
    \/ \E p \in InstanceNames : instance_VectorMemory_init(p)
    \/ \E p \in InstanceNames, text \in Texts, meta \in Metas :
          instance_store(p, text, meta)
    \/ instances_tick

InstancesSpec == InstancesInit /\ [][InstancesNext]_vars

Components == {"KnowledgeGraph", "VectorMemory", "PlannerAgent.plan", "SummarizerAgent.summarize",
               "SearchAgent.search", "SearchAgent.multi_source_search"}

Init ==
    /\ under_test \in Components
    /\ agent_kg \in IF under_test \in {"PlannerAgent.plan", "SearchAgent.search",
                                       "SummarizerAgent.summarize"}
                    THEN BOOLEAN ELSE {TRUE}
    /\ web_answer \in CASE under_test = "SearchAgent.search" -> SearchAnswers
                        [] under_test = "SearchAgent.multi_source_search" ->
                             SeqUpTo(RawWeb, MaxAnswer)
                        [] OTHER -> {<<>>}
    /\ news_answer \in IF under_test = "SearchAgent.multi_source_search"
                       THEN SeqUpTo(RawNews, MaxNews) ELSE {<<>>}
    /\ \E use_llm, has_config, enabled, client \in
             IF under_test = "SummarizerAgent.summarize" THEN BOOLEAN ELSE {FALSE} :
          summarizer = SummarizerAgent_init(use_llm, has_config, enabled, client)
    /\ search_results \in IF under_test = "SummarizerAgent.summarize"
                          THEN SeqUpTo(ResultLists, MaxLists) ELSE {<<>>}
    /\ instances = <<>>
    /\ clock = 0
    /\ graph = DefaultGraph(0)
    /\ current_session_id = None
    /\ kg_disk = NoFile
    /\ kg_saves = "none"
    /\ vectors = <<>>
    /\ metadata = <<>>
    /\ vm_disk = NoFile
    /\ vm_saves = "none"
    /\ str_hash = <<>>
    /\ io_failures = 0
    /\ calls = 0
    /\ pc = "idle"
    /\ run = NoRun
    /\ ret = [op |-> "init"]

Next ==
    \/ Tick
    \/ \E q \in Queries : start_session(q)
    \/ \E id \in SessionIds(graph) \cup {UnknownId}, st \in Statuses :
          end_session(id, st)
    \/ \E a \in LogAgents, ts \in {None, isoformat(0)} :
          log_agent_action(a, "note", [note |-> "n1"], ts)
    \/ \E id \in SessionIds(graph) \cup {UnknownId, None} : get_session_history(id)
    \/ get_agent_stats
    \/ KnowledgeGraph_init
    \/ \E text \in Texts, meta \in Metas : store(text, meta)
    \/ VectorMemory_init
    \/ \E query \in Texts, top_k \in TopKs : vm_search(query, top_k)
    \/ \E q \in Queries : plan(q)
    \/ \E q \in Queries, max_results \in {0, 2} : search(q, max_results)
    \/ \E max_results \in {0, 1, 2}, include_news \in BOOLEAN :
          multi_search(max_results, include_news)
    \/ summarize

Spec == Init /\ [][Next]_vars

(***************************************************************************)
(* The claims.                                                             *)
(***************************************************************************)
\* C1: for every query, plan returns exactly five subtasks with the ids
\* 1, 2, 3, 4, 5 in that order, of the types search, search, search,
\* summarize, write; subtask 4 lists exactly [1, 2, 3] as its prerequisites
\* and subtask 5 exactly [4].
C1_PlanShape ==
    (ret.op = "plan" /\ ~ret.raised) =>
        LET s == ret.value
        IN  /\ Len(s) = 5
            /\ \A i \in 1..Len(s) : s[i].id = i
            /\ [i \in 1..Len(s) |-> s[i].type] =
                  <<"search", "search", "search", "summarize", "write">>
            /\ s[4].depends_on = <<1, 2, 3>>
            /\ s[5].depends_on = <<4>>

\* plan has returned, its two events are in the log of the current session
C1_Witness ==
    /\ ret.op = "plan" /\ ret.query = <<"q2">> /\ ~ret.raised
    /\ Len(graph.sessions) = 1
    /\ Len(graph.sessions[1].actions) = 2
    /\ graph.sessions[1].actions[2].data.subtask_count = 5

\* C2: whenever the external search source fails for a query, search logs a
\* search_failed event to the episodic log and returns an empty list.
C2_SearchFailureLogged ==
    (ret.op = "search" /\ ret.provider_raised) =>
        /\ ret.value = <<>>
        /\ agent_kg => graph.actions[Len(graph.actions)].action = "search_failed"

\* the results the two sources returned to multi_source_search, concatenated
Concatenated == ret.web \o ret.news

\* the first index of a result with this URL
FirstWithUrl(all, url) == CHOOSE k \in 1..Len(all) :
    all[k].url = url /\ \A m \in 1..(k - 1) : all[m].url # url

\* C3: the list multi_source_search returns holds no two results with the
\* same non-empty URL, and the result kept for a URL is its first occurrence
\* in the concatenation (web results, then news results), with the rank it
\* had there.
C3_NoDuplicateUrl ==
    ret.op = "multi_source_search" =>
        LET v == ret.value
        IN  /\ \A i, j \in 1..Len(v) :
                  (i # j /\ v[i].url # "") => v[i].url # v[j].url
            /\ \A i \in 1..Len(v) :
                  v[i].url # "" =>
                      v[i] = Concatenated[FirstWithUrl(Concatenated, v[i].url)]

\* a URL the web source returned twice and the news source once, returned once
C3_Witness ==
    /\ ret.op = "multi_source_search"
    /\ \E i, j \in 1..Len(ret.web), k \in 1..Len(ret.news) :
          /\ i < j /\ ret.web[i].url = "u1" /\ ret.web[j].url = "u1"
          /\ ret.web[i].title # ret.web[j].title
          /\ ret.news[k].url = "u1"
    /\ \E i \in 1..Len(ret.value) : ret.value[i].url = "u1"

IsNews(x) == Get(x, "search_type", "") = "news"

\* C4: in the list multi_source_search returns every result tagged
\* search_type = news comes before every result without the tag, and inside
\* each of the two groups the results are in ascending original rank.
C4_NewsFirstByRank ==
    ret.op = "multi_source_search" =>
        LET v == ret.value
        IN  \A i, j \in 1..Len(v) :
               i < j => /\ ~(IsNews(v[j]) /\ ~IsNews(v[i]))
                        /\ (IsNews(v[i]) = IsNews(v[j])) => v[i].rank < v[j].rank

\* two news results returned ahead of a web result
C4_Witness ==
    /\ ret.op = "multi_source_search"
    /\ Len(ret.value) = 3
    /\ IsNews(ret.value[2]) /\ ~IsNews(ret.value[3])
    /\ ret.value[3] = Concatenated[1]

\* C5: a result whose URL is missing or empty is never removed by the
\* deduplication: when the cut to max_results * 2 entries removes nothing,
\* every such result of the concatenation is in the list returned.
C5_EmptyUrlKept ==
    (/\ ret.op = "multi_source_search"
     /\ Len(Concatenated) <= 2 * OrDefault(ret.max_results)) =>
        \A k \in 1..Len(Concatenated) :
            Concatenated[k].url = "" =>
                \E i \in 1..Len(ret.value) : ret.value[i] = Concatenated[k]

\* the number of results in the lists, and the i-th of them in arrival order
RECURSIVE TotalLen(_)
TotalLen(lists) ==
    IF lists = <<>> THEN 0 ELSE Len(Head(lists)) + TotalLen(Tail(lists))

RECURSIVE NthResult(_, _)
NthResult(lists, i) ==
    IF i <= Len(Head(lists)) THEN Head(lists)[i]
    ELSE NthResult(Tail(lists), i - Len(Head(lists)))

\* C6: when the agent has a language-model client and the flattened input is
\* not empty, and the call of the model raises or its response is not a
\* parsable JSON object, summarize returns a summary with synthesis_method
\* heuristic_extraction whose key_findings, sources and source_count are
\* those of heuristic mode on the same input, with at least one finding.
C6_LlmFallback ==
    (/\ ret.op = "summarize"
     /\ summarizer.llm_client /\ TotalLen(search_results) > 0
     /\ ret.outcome \in {"raised", "unparsable", "not_object"}) =>
        LET heuristic == synthesize_information(search_results)
        IN  /\ ret.value.synthesis_method = "heuristic_extraction"
            /\ ret.value.key_findings = heuristic.key_findings
            /\ ret.value.sources = heuristic.sources
            /\ ret.value.source_count = heuristic.source_count
            /\ Len(ret.value.key_findings) >= 1

\* a fenced response that holds no JSON document, on sixteen results
C6_Witness ==
    /\ ret.op = "summarize" /\ summarizer.llm_client
    /\ ret.outcome = "unparsable"
    /\ Len(ret.llm.response) = 3 /\ ret.llm.response[1] = Fence
    /\ ret.llm.response[2] = "json" /\ ret.llm.response[3] = Fence
    /\ TotalLen(search_results) = 16
    /\ Len(ret.value.key_findings) = 10

\* C7: heuristic summarization of lists holding n results in all yields
\* exactly min(n, 10) findings, the i-th made from the i-th result in
\* arrival order, and at most 15 sources.
C7_HeuristicFindings ==
    (/\ ret.op = "summarize" /\ ~ret.raised
     /\ ret.value.synthesis_method = "heuristic_extraction") =>
        LET n == TotalLen(search_results)
            findings == ret.value.key_findings
        IN  /\ Len(findings) = Min(n, 10)
            /\ \A i \in 1..Len(findings) :
                  LET result == NthResult(search_results, i)
                  IN  /\ findings[i].source = Get(result, "title", "Unknown")
                      /\ findings[i].url = Get(result, "url", "")
                      /\ findings[i].point[1] = Get(result, "snippet", <<"", 0>>)[1]
            /\ Len(ret.value.sources) <= 15

\* heuristic mode on sixteen results in two lists: the ninth finding is the
\* first result of the second list
C7_Witness ==
    /\ ret.op = "summarize" /\ ~summarizer.llm_client
    /\ TotalLen(search_results) = 16
    /\ Len(ret.value.key_findings) = 10
    /\ ret.value.key_findings[9].source = "T1"

StatsOf(agents, a) == IF a \in DOMAIN agents THEN agents[a] ELSE [action_count |-> 0]

\* C8: a call log_agent_action(agent, action, data, timestamp) raises that
\* agent's action_count by exactly 1, sets its last_seen to the timestamp
\* given, sets first_seen on the agent's first call and keeps it on every
\* later one, and leaves the stats of every other agent as they were.
C8_LogAgentActionStats ==
    [][ret'.op = "log_agent_action" =>
          LET a == ret'.agent
              old == graph.agents
              new == graph'.agents
          IN  /\ DOMAIN new = DOMAIN old \cup {a}
              /\ new[a].action_count = StatsOf(old, a).action_count + 1
              /\ new[a].last_seen = ret'.timestamp
              /\ new[a].first_seen =
                    (IF a \in DOMAIN old THEN old[a].first_seen ELSE ret'.timestamp)
              /\ \A b \in DOMAIN old \ {a} : new[b] = old[b]]_vars

\* a repeat call, at a later time than the agent's first, with another agent known
C8_Witness ==
    /\ ret.op = "log_agent_action"
    /\ graph.agents[ret.agent].action_count >= 2
    /\ graph.agents[ret.agent].first_seen # graph.agents[ret.agent].last_seen
    /\ DOMAIN graph.agents # {ret.agent}

\* C9: no two sessions of the store have the same id, also when several
\* start_session calls fall in the same clock second, and the k-th session
\* of the store carries the sequence number k.
C9_SessionIdsUnique ==
    LET ss == graph.sessions
    IN  /\ \A i, j \in 1..Len(ss) : i # j => ss[i].id # ss[j].id
        /\ \A k \in 1..Len(ss) :
              \E sec \in 0..timestamp(clock) : ss[k].id = SessionId(k, sec)

\* two sessions started within one clock second
C9_Witness ==
    /\ Len(graph.sessions) >= 2
    /\ timestamp(graph.sessions[1].started[2]) = timestamp(graph.sessions[2].started[2])
    /\ graph.sessions[1].started # graph.sessions[2].started

\* C10: when every _save of a store instance that has made mutating calls
\* succeeded, a new instance constructed on the same file (and reading it
\* without an error) holds the document the first instance held: sessions,
\* agents, actions and metadata of the KnowledgeGraph, vectors and metadata
\* of the VectorMemory.
C10_RoundTrip ==
    [][/\ (ret'.op = "KnowledgeGraph" /\ ret'.saves = "ok" /\ ret'.load = "ok")
            => graph' = graph
       /\ (ret'.op = "VectorMemory" /\ ret'.saves = "ok" /\ ret'.load = "ok")
            => (vectors' = vectors /\ metadata' = metadata)]_vars

\* a VectorMemory reloaded with two records in it
C10_Witness ==
    /\ ret.op = "VectorMemory" /\ ret.saves = "ok" /\ ret.load = "ok"
    /\ Len(vectors) >= 2 /\ Len(metadata) >= 2
    /\ vectors[1] # vectors[2]

\* a search result without its score
Record(result) == [k \in DOMAIN result \ {"similarity_score"} |-> result[k]]

\* the record stored last
LastStored == metadata[Len(metadata)]

\* search(text) called right after store(text, meta)
SearchAfterStore ==
    /\ ret.op = "vm_search" /\ ret.after = "store"
    /\ ret.query = LastStored.text
    /\ ret.top_k >= 1

\* C11 as stated: search(text) right after store(text, meta) returns the
\* record just stored first, with similarity_score equal to 1.0.
C11_SelfFirstExactlyOne ==
    SearchAfterStore =>
        /\ Len(ret.value) >= 1
        /\ Record(ret.value[1]) = LastStored
        /\ ret.value[1].similarity_score.dot * ret.value[1].similarity_score.dot =
              ret.value[1].similarity_score.norm1sq * ret.value[1].similarity_score.norm2sq
        /\ ret.value[1].similarity_score.ulps = 0

\* C11 amended: search(text) right after store(text, meta) returns first the
\* earliest stored record whose embedding is that of text (the record just
\* stored when no earlier record has that embedding), with a
\* similarity_score that is 1.0 up to the rounding of the last place.
C11_SelfSimilarity ==
    SearchAfterStore =>
        LET n == Len(vectors)
            earliest == CHOOSE k \in 1..n :
                           /\ vectors[k] = vectors[n]
                           /\ \A j \in 1..(k - 1) : vectors[j] # vectors[n]
            score == ret.value[1].similarity_score
        IN  /\ Len(ret.value) >= 1
            /\ Record(ret.value[1]) = metadata[earliest]
            /\ score.dot * score.dot = score.norm1sq * score.norm2sq
            /\ score.ulps \in {-1, 0, 1}

\* the text stored twice with different metadata: the earlier record comes
\* first, the record just stored second
C11_Witness ==
    /\ SearchAfterStore
    /\ Len(ret.value) >= 3
    /\ Record(ret.value[1]) # LastStored
    /\ Record(ret.value[2]) = LastStored
    /\ ret.value[3].similarity_score.ulps = 0
    /\ ret.value[1].similarity_score.ulps = 1

\* C12: search on a store that holds no records returns the empty list,
\* for every query and every top_k.
C12_EmptyStoreSearch ==
    (ret.op = "vm_search" /\ vectors = <<>> /\ metadata = <<>>) => ret.value = <<>>

\* a search on a store that came up empty although its file holds records
C12_Witness ==
    /\ ret.op = "vm_search" /\ vectors = <<>> /\ metadata = <<>>
    /\ ret.after = "VectorMemory" /\ ret.top_k = 5
    /\ vm_disk \notin {NoFile, Corrupt}
    /\ ret.value = <<>>

\* the number of results the search calls of the run have returned
RECURSIVE Returned(_, _)
Returned(trace, i) ==
    IF i = 0 THEN 0
    ELSE Returned(trace, i - 1) +
         (IF trace[i].call = "search" THEN trace[i].arg.returned ELSE 0)

\* C13: in a research run the summary's source_count is the sum of the
\* lengths of the lists the search subtasks returned, a URL returned by two
\* subtasks counting twice.
C13_SourceCountIsSum ==
    "summary" \in DOMAIN run =>
        run.summary.source_count = Returned(run.trace, Len(run.trace))

\* three searches that returned two results each, u1 among them each time
C13_Witness ==
    /\ pc = "done"
    /\ Len(run.search_results) = 3
    /\ \A k \in 1..3 :
          /\ Len(run.search_results[k]) = 2
          /\ \E i \in 1..2 : run.search_results[k][i].url = "u1"
    /\ run.summary.source_count = 6

\* the session of the run, in the graph
RunSession == graph.sessions[FindSession(graph.sessions, run.session_id, 1)]

\* the run was ended by the report file, which could not be written
ReportNotWritten ==
    pc = "raised" /\ run.trace[Len(run.trace)] = Event("save_report", "fail")

\* C14: whatever provider calls, model calls and store saves fail, a research
\* run reaches end_session (nothing but a report file that cannot be written
\* ends it before), and then the session of the run is completed, has an end
\* time, and the summary is a heuristic or llm summary.
C14_RunReachesEndSession ==
    /\ pc = "raised" => ReportNotWritten
    /\ pc = "done" =>
          /\ RunSession.status = "completed"
          /\ "ended" \in DOMAIN RunSession
          /\ run.summary.synthesis_method \in {"heuristic_extraction", "llm"}

\* the place of a call in the order of research, lines 80-116
PhaseRank(call) ==
    CASE call = "start_session" -> 1
      [] call = "plan" -> 2
      [] call = "search" -> 3
      [] call = "summarize" -> 4
      [] call = "write_report" -> 5
      [] call = "save_report" -> 6
      [] call = "store" -> 7
      [] call = "end_session" -> 8

IsSearchCall(e) == e.call = "search"

IsSearchSubtask(subtask) == Get(subtask, "type", "") = "search"

\* C15: the calls of one research run are made in the order start_session,
\* plan, one search per search subtask in plan order, summarize, write_report,
\* (the report file,) the stores into the vector memory, end_session: no call
\* is made before the one it follows has been made, only search and store
\* repeat, summarize is called after every search subtask has returned, and
\* every store follows write_report.
C15_PhasesInOrder ==
    pc # "idle" =>
        LET t == run.trace
            searches == SelectSeq(t, IsSearchCall)
            planned == IF "subtasks" \in DOMAIN run
                       THEN SelectSeq(run.subtasks, IsSearchSubtask) ELSE <<>>
        IN  /\ t[1].call = "start_session"
            /\ \A i \in 1..(Len(t) - 1) :
                  \/ PhaseRank(t[i + 1].call) = PhaseRank(t[i].call) + 1
                  \/ /\ t[i + 1].call = t[i].call
                     /\ t[i].call \in {"search", "store"}
            /\ Len(searches) <= Len(planned)
            /\ \A k \in 1..Len(searches) : searches[k].arg.id = planned[k].id
            /\ \A i \in 1..Len(t) :
                  t[i].call = "summarize" =>
                      Len(SelectSeq(SubSeq(t, 1, i - 1), IsSearchCall)) = Len(planned)
            /\ \A i \in 1..Len(t) :
                  t[i].call = "store" => \E j \in 1..(i - 1) : t[j].call = "write_report"

\* a run that made its three searches, stored more than one text and ended
C15_Witness ==
    /\ pc = "done"
    /\ Len(SelectSeq(run.trace, IsSearchCall)) = 3
    /\ Cardinality({i \in 1..Len(run.trace) : run.trace[i].call = "store"}) > 1
    /\ run.trace[Len(run.trace)].call = "end_session"

\* the records of a knowledge-graph document, and their number
GraphRecords(g) ==
    {<<"session", g.sessions[i]>> : i \in 1..Len(g.sessions)}
        \cup {<<"action", g.actions[i]>> : i \in 1..Len(g.actions)}

GraphCount(g) == Len(g.sessions) + Len(g.actions)

\* the records of a vector-store document
VectorRecords(d) == {<<d.vectors[i], d.metadata[i]>> : i \in 1..Len(d.vectors)}

\* both instances have read the same file, then each has made one call that
\* added a record and wrote the file: first, then last
SavedInTurn(first, last) ==
    /\ first # last
    /\ instances.saves = <<[instance |-> first, outcome |-> "ok"],
                           [instance |-> last, outcome |-> "ok"]>>
    /\ instances.at[first].from = instances.at[last].from
    /\ instances.at[last].from # None

\* C16: two instances of a store have read the same file, and each has added
\* a record and saved.  Then the file holds the document the instance that
\* saved last has in memory: the records both had read and the one record of
\* the last, and the record of the first is not in it (unless it equals a
\* record that is).  So for the knowledge graph and for the vector memory.
C16_LastWriteWins ==
    \A first, last \in InstanceNames :
        SavedInTurn(first, last) =>
            LET mine == instances.at[last]
                lost == instances.at[first].added[1]
            IN  IF under_test = "KnowledgeGraph instances"
                THEN LET doc == JsonLoadGraph(kg_disk)
                         common == JsonLoadGraph(mine.from)
                     IN  /\ doc = mine.graph
                         /\ GraphCount(doc) = GraphCount(common) + 1
                         /\ lost \notin GraphRecords(common) \cup {mine.added[1]}
                                => lost \notin GraphRecords(doc)
                ELSE LET doc == JsonLoadVectors(vm_disk)
                         common == JsonLoadVectors(mine.from)
                     IN  /\ doc = [vectors |-> mine.vectors,
                                   metadata |-> mine.metadata]
                         /\ Len(doc.vectors) = Len(common.vectors) + 1
                         /\ Len(doc.metadata) = Len(common.metadata) + 1
                         /\ lost \notin VectorRecords(common) \cup {mine.added[1]}
                                => lost \notin VectorRecords(doc)

\* a started a session and saved, then b logged an action and saved; the file
\* holds the action of b and not the session of a
C16_Witness ==
    /\ under_test = "KnowledgeGraph instances"
    /\ SavedInTurn("a", "b")
    /\ instances.at["a"].added[1][1] = "session"
    /\ instances.at["b"].added[1][1] = "action"
    /\ instances.at["a"].added[1] \notin GraphRecords(JsonLoadGraph(kg_disk))
    /\ instances.at["b"].added[1] \in GraphRecords(JsonLoadGraph(kg_disk))

\* C17: when the knowledge graph attached to the planner raises while it
\* records planning_started or planning_completed, plan does not raise and
\* returns the five subtasks.
C17_PlanSurvivesLog ==
    (ret.op = "plan" /\ ret.log_raises # 0) =>
        /\ ~ret.raised
        /\ Len(ret.value) = 5

\* C18: a failure of a load or of a save never raises to the caller of either
\* store.  After a failed load the new instance holds the empty default
\* document.  After a failed save the record the call added is in memory, and
\* the reads that follow show it: get_session_history the session started,
\* get_agent_stats the action logged, search (of as many results as there
\* are records) the text stored.
C18_PersistenceContained ==
    /\ ret.op \in {"KnowledgeGraph", "VectorMemory"} =>
          /\ ~ret.raised
          /\ (ret.op = "KnowledgeGraph" /\ ret.load = "fail") =>
                graph = DefaultGraph(clock)
          /\ (ret.op = "VectorMemory" /\ ret.load = "fail") =>
                vectors = <<>> /\ metadata = <<>>
    /\ (ret.op = "start_session" /\ ret.save # "ok") =>
          graph.sessions[Len(graph.sessions)].id = ret.value
    /\ (ret.op = "log_agent_action" /\ ret.save # "ok") =>
          graph.actions[Len(graph.actions)].agent = ret.agent
    /\ (ret.op = "store" /\ ret.save # "ok") =>
          LastStored.text = ret.text /\ Len(vectors) = Len(metadata)
    /\ (ret.op = "get_session_history" /\ ret.after = "start_session"
           /\ ret.session_id = None /\ kg_saves = "failed") =>
          ret.value = graph.sessions[Len(graph.sessions)]
    /\ (ret.op = "get_agent_stats" /\ ret.after = "log_agent_action"
           /\ kg_saves = "failed") =>
          /\ ret.value.total_actions = Len(graph.actions)
          /\ ret.value.agents = graph.agents
    /\ (ret.op = "vm_search" /\ ret.after = "store" /\ vm_saves = "failed"
           /\ ret.top_k >= Len(metadata)) =>
          \E i \in 1..Len(ret.value) : Record(ret.value[i]) = LastStored

\* the scores of a result list do not grow from one result to the next
NonIncreasing(results) ==
    \A i \in 1..(Len(results) - 1) :
        ~ScoreGreater(results[i + 1].similarity_score, results[i].similarity_score)

\* C19: search leaves vectors and metadata as they were, and returns at most
\* top_k results, none with a greater score than the one before it; store
\* adds one vector and one metadata entry at the end and leaves every
\* earlier one as it was, at its index.
C19_SearchStoreFrame ==
    [][/\ ret'.op = "vm_search" =>
             /\ vectors' = vectors
             /\ metadata' = metadata
             /\ Len(ret'.value) <= ret'.top_k
             /\ NonIncreasing(ret'.value)
       /\ ret'.op = "store" =>
             /\ Len(vectors') = Len(vectors) + 1
             /\ Len(metadata') = Len(metadata) + 1
             /\ SubSeq(vectors', 1, Len(vectors)) = vectors
             /\ SubSeq(metadata', 1, Len(metadata)) = metadata]_vars

\* a search of three records for two: the two returned differ in score
C19_Witness ==
    /\ ret.op = "vm_search" /\ ret.top_k = 2
    /\ Len(metadata) = 3
    /\ Len(ret.value) = 2
    /\ ScoreGreater(ret.value[1].similarity_score, ret.value[2].similarity_score)

\* C20: when log_agent_action returns, the new entry is the last of the
\* global action list, whose earlier entries are as they were; it is the last
\* of the action list of the session that is current, if one is, and the
\* list of every other session is as it was; and the agent has a stats entry
\* that counts one action more and was last seen at the time of the entry.
C20_LogAgentActionEffects ==
    [][ret'.op = "log_agent_action" =>
          LET entry == graph'.actions[Len(graph'.actions)]
              cur == current_session_id
          IN  /\ graph'.actions = Append(graph.actions, entry)
              /\ entry.agent = ret'.agent
              /\ entry.timestamp = ret'.timestamp
              /\ entry.session_id = cur
              /\ Len(graph'.sessions) = Len(graph.sessions)
              /\ \A i \in 1..Len(graph.sessions) :
                    graph'.sessions[i].actions =
                        IF cur # None /\ graph.sessions[i].id = cur
                        THEN Append(graph.sessions[i].actions, entry)
                        ELSE graph.sessions[i].actions
              /\ ret'.agent \in DOMAIN graph'.agents
              /\ graph'.agents[ret'.agent].action_count =
                    StatsOf(graph.agents, ret'.agent).action_count + 1
              /\ graph'.agents[ret'.agent].last_seen = entry.timestamp]_vars

\* an action logged in the second session, after one logged in the first
C20_Witness ==
    /\ ret.op = "log_agent_action"
    /\ Len(graph.sessions) = 2
    /\ current_session_id = graph.sessions[2].id
    /\ Len(graph.sessions[1].actions) = 1
    /\ graph.sessions[2].actions = <<graph.actions[Len(graph.actions)]>>
    /\ Len(graph.actions) = 2

\* C21: log_agent_action adds an entry to the action list of a session only
\* while the status of that session is active: when the call returns, the
\* entry it has added carries the id of no session that has been ended, and
\* is the last of the action list of no such session.
C21_NoLogAfterEnd ==
    ret.op = "log_agent_action" =>
        LET entry == graph.actions[Len(graph.actions)]
        IN  \A i \in 1..Len(graph.sessions) :
                graph.sessions[i].status # "active" =>
                    /\ entry.session_id # graph.sessions[i].id
                    /\ \/ graph.sessions[i].actions = <<>>
                       \/ graph.sessions[i].actions[Len(graph.sessions[i].actions)]
                              # entry

\* C22: the method recorded in the summarization_completed event is the
\* synthesis method of the summary returned: llm when the summary has
\* synthesis_method llm, heuristic when it has heuristic_extraction, also
\* after a fallback.
C22_MethodLoggedIsMethodUsed ==
    (ret.op = "summarize" /\ ~ret.raised /\ agent_kg) =>
        LET event == graph.actions[Len(graph.actions)]
        IN  /\ event.action = "summarization_completed"
            /\ event.data.method =
                  (IF ret.value.synthesis_method = "llm" THEN "llm" ELSE "heuristic")

\* C23: in heuristic mode the sources are the flattened results that have a
\* non-empty url, in arrival order, the first 15 of them when there are more:
\* min(15, number of results with a url) sources, the i-th made of the i-th
\* such result.
C23_HeuristicSources ==
    (/\ ret.op = "summarize" /\ ~ret.raised
     /\ ret.value.synthesis_method = "heuristic_extraction") =>
        LET with_url == SelectSeq(Flatten(search_results), HasUrl)
            sources == ret.value.sources
        IN  /\ Len(sources) = Min(15, Len(with_url))
            /\ \A i \in 1..Len(sources) :
                  /\ sources[i].url = with_url[i].url
                  /\ sources[i].title = Get(with_url[i], "title", "Unknown")

\* the first n results handed to summarize, in arrival order
FirstResults(n) ==
    [i \in 1..Min(n, TotalLen(search_results)) |-> NthResult(search_results, i)]

\* C24: when the call of the language model succeeds, the sources of the
\* summary are the (title, url) of the results with a non-empty url among
\* the first 15 of the flattened input, in input order, whatever urls the
\* findings of the model hold; synthesis_method is llm and source_count is
\* the length of the flattened input.
C24_LlmSourcesFromInput ==
    (/\ ret.op = "summarize" /\ ~ret.raised /\ ret.outcome = "ok") =>
        LET with_url == SelectSeq(FirstResults(15), HasUrl)
            sources == ret.value.sources
        IN  /\ ret.value.synthesis_method = "llm"
            /\ ret.value.source_count = TotalLen(search_results)
            /\ Len(sources) = Len(with_url)
            /\ \A i \in 1..Len(sources) :
                  /\ sources[i].url = with_url[i].url
                  /\ sources[i].title = Get(with_url[i], "title", "Unknown")

\* the model names a url that no result has; the input holds a result
\* without a url and one without a title
C24_Witness ==
    /\ ret.op = "summarize" /\ ~ret.raised /\ ret.outcome = "ok"
    /\ ret.value.key_findings # <<>>
    /\ ret.value.key_findings[1].url = "u0"
    /\ TotalLen(search_results) = 10
    /\ Len(ret.value.sources) = 9
    /\ \E i \in 1..9 : ret.value.sources[i].title = "Unknown"
    /\ \A i \in 1..9 : ret.value.sources[i].url # "u0"

\* C25: for every max_results >= 1, multi_source_search with include_news
\* set gets at most max_results \div 2 results from the news source, each
\* tagged search_type news; with include_news unset it gets none, and no
\* result it returns is a news result.
C25_NewsAtHalf ==
    (ret.op = "multi_source_search" /\ ret.max_results >= 1) =>
        IF ret.include_news
        THEN /\ Len(ret.news) <= ret.max_results \div 2
             /\ \A i \in 1..Len(ret.news) : ret.news[i].search_type = "news"
        ELSE /\ ret.news = <<>>
             /\ \A i \in 1..Len(ret.value) : ~IsNews(ret.value[i])

\* C26: a research run that completes adds 1 + min(5, number of key
\* findings) records to the vector memory, after the records it held: first
\* one whose text is the query, of type research_query, with the
\* source_count of the summary and the number of its findings, then one of
\* type key_finding for each of the first five findings, in their order.
C26_MemoryRecordsOfARun ==
    [][(pc = "update_memory" /\ pc' = "end_session") =>
          LET findings == run.summary.key_findings
              n == Min(5, Len(findings))
              added == SubSeq(metadata', Len(metadata) + 1, Len(metadata'))
          IN  /\ SubSeq(metadata', 1, Len(metadata)) = metadata
              /\ Len(vectors') = Len(vectors) + 1 + n
              /\ Len(added) = 1 + n
              /\ added[1].text = run.query
              /\ added[1].type = "research_query"
              /\ added[1].source_count = run.summary.source_count
              /\ added[1].key_findings_count = Len(findings)
              /\ \A i \in 1..n :
                    /\ added[i + 1].type = "key_finding"
                    /\ added[i + 1].text = Get(findings[i], "point", <<>>)
                    /\ added[i + 1].source = Get(findings[i], "source", "Unknown")]_vars

\* a run of six findings has ended: six records, the last from the fifth
C26_Witness ==
    /\ pc = "done"
    /\ Len(run.summary.key_findings) = 6
    /\ Len(metadata) = 6
    /\ metadata[6].text = run.summary.key_findings[5].point
    /\ metadata[1].key_findings_count = 6

\* C27: when start_session, end_session or log_agent_action of the knowledge
\* graph, or store of the vector memory, returns and its save has not
\* failed, the file holds the whole document the store has in memory.
C27_PersistedIsInMemory ==
    /\ (ret.op \in {"start_session", "end_session", "log_agent_action"}
           /\ ret.save = "ok") =>
          /\ kg_disk # NoFile /\ kg_disk # Corrupt
          /\ JsonLoadGraph(kg_disk) = graph
    /\ (ret.op = "store" /\ ret.save = "ok") =>
          /\ vm_disk # NoFile /\ vm_disk # Corrupt
          /\ JsonLoadVectors(vm_disk) = [vectors |-> vectors, metadata |-> metadata]

\* end_session has written the document after an earlier save of the
\* instance had failed: the session ended and its action are in the file
C27_Witness ==
    /\ ret.op = "end_session" /\ ret.save = "ok"
    /\ kg_saves = "failed"
    /\ Len(JsonLoadGraph(kg_disk).actions) >= 1
    /\ Len(JsonLoadGraph(kg_disk).sessions) >= 1
    /\ JsonLoadGraph(kg_disk).sessions[1].status # "active"

\* a session without its end time and status
Unended(session) == [k \in DOMAIN session \ {"ended", "status"} |-> session[k]]

\* C28: end_session(id, status) changes the end time and the status of the
\* session with that id and nothing else: id, query, start time and action
\* list of that session, every other session, the global action list, the
\* agent stats and the metadata are as they were, no session is removed, and
\* for an id no session has the document is as it was.
C28_EndSessionFrame ==
    [][ret'.op = "end_session" =>
          LET old == graph.sessions
              new == graph'.sessions
              id == ret'.session_id
          IN  /\ graph'.actions = graph.actions
              /\ graph'.agents = graph.agents
              /\ graph'.metadata = graph.metadata
              /\ Len(new) = Len(old)
              /\ \A i \in 1..Len(old) :
                    IF old[i].id = id
                    THEN /\ Unended(new[i]) = Unended(old[i])
                         /\ new[i].status = ret'.status
                    ELSE new[i] = old[i]
              /\ (\A i \in 1..Len(old) : old[i].id # id) => graph' = graph]_vars

\* the first of two sessions has been ended, the second is still active
C28_Witness ==
    /\ ret.op = "end_session"
    /\ Len(graph.sessions) = 2
    /\ graph.sessions[1].id = ret.session_id
    /\ graph.sessions[1].status = ret.status
    /\ "ended" \in DOMAIN graph.sessions[1]
    /\ graph.sessions[2].status = "active"

(***************************************************************************)
(* C29.  Invariants of the episodic store.                                 *)
(***************************************************************************)
\* the sum of action_count over the agents named
RECURSIVE ActionCountSum(_, _)
ActionCountSum(agents, names) ==
    IF names = {} THEN 0
    ELSE LET a == CHOOSE n \in names : TRUE
         IN  agents[a].action_count + ActionCountSum(agents, names \ {a})

\* s from its i-th entry on is found, in order, in t from its j-th entry on
RECURSIVE IsSubsequence(_, _, _, _)
IsSubsequence(s, i, t, j) ==
    IF i > Len(s) THEN TRUE
    ELSE IF j > Len(t) THEN FALSE
    ELSE IF s[i] = t[j] THEN IsSubsequence(s, i + 1, t, j + 1)
    ELSE IsSubsequence(s, i, t, j + 1)

\* C29: in a store that started empty, after any calls, total_actions is the
\* sum of action_count over all agents, every entry of a session's action list
\* carries the id of that session, and every session's action list is a
\* subsequence of the global action list, in the same order
C29_EpisodicInvariants ==
    /\ KG_get_agent_stats(KG).total_actions =
           ActionCountSum(graph.agents, DOMAIN graph.agents)
    /\ \A i \in 1..Len(graph.sessions) :
          LET session == graph.sessions[i]
          IN  /\ \A j \in 1..Len(session.actions) :
                    session.actions[j].session_id = session.id
              /\ IsSubsequence(session.actions, 1, graph.actions, 1)

\* two sessions hold one action each, logged by two agents
C29_Witness ==
    /\ ret.op = "log_agent_action"
    /\ Len(graph.sessions) = 2
    /\ Len(graph.sessions[1].actions) = 1
    /\ Len(graph.sessions[2].actions) = 1
    /\ Len(graph.actions) = 2
    /\ graph.actions[1].agent # graph.actions[2].agent

(***************************************************************************)
(* C30.  Sessions of calls that are over.                                  *)
(***************************************************************************)
\* no call of research is in progress: none began, or the last one returned
\* or raised
NoResearchInProgress == pc \in {"idle", "done", "raised"}

\* C30: whenever no research call is in progress, no session that research
\* opened is active; a call that ends by raising does not leave its session
\* active
C30_NoActiveSessionAtRest ==
    NoResearchInProgress =>
        \A i \in 1..Len(graph.sessions) : graph.sessions[i].status # "active"

====
